---------------------------- MODULE Spec2Model ----------------------------
(***************************************************************************)
(* FacilityProfiling: the FastAPI service of src/main.py over the          *)
(* persistence layer of src/db_helper.py.                                  *)
(*                                                                         *)
(* State: the two tables (users, inspections), the serial sequences that   *)
(* feed their id columns, the wall clock read by the token code, the       *)
(* tokens that login has handed out, and the answer of the last HTTP call  *)
(* together with the request that produced it.                             *)
(*                                                                         *)
(* One action per endpoint; an action is the whole request: the            *)
(* dependencies (get_current_user), request-body validation                *)
(* (InspectionRecord), the handler body and the db_helper calls it makes.  *)
(***************************************************************************)
EXTENDS Integers, Sequences, FiniteSets, TLC

VARIABLES
    users,          \* table users: set of rows [id, username, password_hash]
    users_id_seq,   \* last value of the serial behind users.id
    inspections,    \* table inspections: set of rows [id, data]
    inspections_id_seq, \* last value of the serial behind inspections.id
    now,            \* datetime.utcnow(), in minutes
    issued,         \* access tokens returned by login so far
    resp,           \* the last HTTP exchange: the request and its answer
    calls,          \* the requests being served: how far each handler has run
    migration,      \* migrate_data.py: the sheet of users and how far it has run
    pathname,       \* dashboard: the pathname of dcc.Location 'url'
    token_store,    \* dashboard: the data of dcc.Store 'token-store'
    pending,        \* dashboard: a callback on 'url' / 'token-store' is due
    notice,         \* dashboard: the text the last callback displayed, in pieces
    fired,          \* dashboard: the callback that ran last, and whether it sent a request
    modal,          \* dashboard: is_open of 'submission-modal'
    running,        \* dashboard: the callbacks of a click on Submit that have not completed
    listing,        \* dashboard: the data of dcc.Store 'inspection-data-store'
    editing         \* dashboard: the data of dcc.Store 'current-row-number'

\* the state of the forms of the dashboard
form_vars == <<fired, modal, running, listing, editing>>

\* the state of the dashboard in the browser
dash_vars == <<pathname, token_store, pending, notice, form_vars>>

vars == <<users, users_id_seq, inspections, inspections_id_seq, now, issued, resp,
          calls, migration, dash_vars>>

-----------------------------------------------------------------------------
(* Bounds of the model *)

\* at most this many rows are ever inserted into inspections
MaxInspections == 2
\* the same, where the tokens and the clock vary instead of the records
MaxGateInspections == 1
\* at most this many distinct tokens are handed out
MaxTokens == 1
\* the clock advances in steps of this many minutes ...
TickMinutes == 30
\* ... up to this time
MaxTime == 90
\* the sheet of users has at most this many rows
MaxSheetUsers == 2

-----------------------------------------------------------------------------
(* Configuration: src/main.py lines 33-35 *)

SECRET_KEY == "my-very-secret-key"
ALGORITHM == "HS256"
ACCESS_TOKEN_EXPIRE_MINUTES == 60

-----------------------------------------------------------------------------
(* JSON / Python values.  Every value carries its type so that validation  *)
(* can tell a string from a number from null.                              *)

Str(s) == [t |-> "str", v |-> s]
Num(n) == [t |-> "num", v |-> n]
List(l) == [t |-> "list", v |-> l]
Date(d) == [t |-> "date", v |-> d]
None == [t |-> "null"]

(* Text of the multi-select pipeline is a sequence of tokens (words,       *)
(* blanks, punctuation), so joining, bracing and PostgreSQL's array input  *)
(* act on it as they act on characters.                                     *)
SP == " "
COMMA == ","
LBRACE == "{"
RBRACE == "}"
QUOTE == "\""

HvacTypes ==
    { <<"Window">>, <<"Split">>, <<"Cassette">>, <<"Duct", SP, "Concealed">>,
      <<"Free", SP, "Standing">>, <<"Other">> }
PowerSources == { <<"110V">>, <<"220V">>, <<"380V">>, <<"480V">> }

YesNo == {"Yes", "No"}
Condition == {"Poor", "Average", "Good", "Excellent"}

\* InspectionRecord: the plain str fields
StrFields ==
    { "function_location_id", "sap_function_location", "building_name",
      "building_number", "facility_type", "function", "macro_area",
      "micro_area", "proponent", "zone" }

\* InspectionRecord: the Literal[...] fields
LiteralFields ==
    { "sprinkler", "fire_alarm", "vcp_status", "smart_power_meter_status",
      "eifs", "exterior_cladding_condition", "interior_architectural_condition",
      "fire_protection_system_obsolete", "roofing_condition",
      "water_proofing_warranty", "full_inspection_completed" }

\* InspectionRecord: the List[Literal[...]] fields
ListFields == { "hvac_type", "power_source" }

\* InspectionRecord: Optional[date] = None
DateFields == { "vcp_planned_date", "water_proofing_warranty_date" }

\* InspectionRecord: Optional[int] = None and Optional[float] = None
NumFields ==
    { "eifs_installed_year", "hvac_condition", "electrical_condition",
      "latitude", "longitude" }

FieldNames == StrFields \cup LiteralFields \cup ListFields \cup DateFields \cup NumFields

\* the values a Literal field admits
Allowed(f) ==
    CASE f = "vcp_status" -> {"Completed", "Inprogress", "Not Applicable", "Planned"}
      [] f \in {"exterior_cladding_condition", "interior_architectural_condition",
                "roofing_condition"} -> Condition
      [] f = "fire_protection_system_obsolete" -> {"Obsolete", "Not Obsolete"}
      [] OTHER -> YesNo

\* the values an element of a List[Literal[...]] field admits
AllowedItems(f) == IF f = "hvac_type" THEN HvacTypes ELSE PowerSources

(* datetime.date: ISO text <-> (year, month, day) *)
IsoDates == { "2024-01-31", "2025-12-01" }

parse_date(s) ==
    CASE s = "2024-01-31" -> <<2024, 1, 31>>
      [] s = "2025-12-01" -> <<2025, 12, 1>>

isoformat(d) ==
    CASE d = <<2024, 1, 31>> -> "2024-01-31"
      [] d = <<2025, 12, 1>> -> "2025-12-01"


-----------------------------------------------------------------------------
(* Request-body validation: pydantic parsing the body as InspectionRecord. *)
(* A body is a JSON object: a function from the keys it carries to values. *)

\* field_ok with the Literal fields annotated as plain str
field_ok_literal_as_str(f, body) ==
    IF f \in StrFields \cup LiteralFields THEN
        f \in DOMAIN body /\ body[f].t = "str"
    ELSE IF f \in ListFields THEN
        /\ f \in DOMAIN body
        /\ body[f].t = "list"
        /\ \A i \in DOMAIN body[f].v : body[f].v[i] \in AllowedItems(f)
    ELSE IF f \in DateFields THEN
        \/ f \notin DOMAIN body
        \/ body[f].t = "null"
        \/ body[f].t = "str" /\ body[f].v \in IsoDates
    ELSE
        \/ f \notin DOMAIN body
        \/ body[f].t = "null"
        \/ body[f].t = "num"

\* one field of the body passes its annotation
field_ok(f, body) ==
    IF f \in StrFields THEN
        f \in DOMAIN body /\ body[f].t = "str"
    ELSE IF f \in LiteralFields THEN
        f \in DOMAIN body /\ body[f].t = "str" /\ body[f].v \in Allowed(f)
    ELSE IF f \in ListFields THEN
        /\ f \in DOMAIN body
        /\ body[f].t = "list"
        /\ \A i \in DOMAIN body[f].v : body[f].v[i] \in AllowedItems(f)
    ELSE IF f \in DateFields THEN
        \/ f \notin DOMAIN body
        \/ body[f].t = "null"
        \/ body[f].t = "str" /\ body[f].v \in IsoDates
    ELSE
        \/ f \notin DOMAIN body
        \/ body[f].t = "null"
        \/ body[f].t = "num"

\* the body parses into an InspectionRecord (otherwise FastAPI answers 422)
InspectionRecord_valid(body) == \A f \in FieldNames : field_ok(f, body)

\* the parsed model: defaults filled in, dates parsed
InspectionRecord(body) ==
    [f \in FieldNames |->
        IF f \notin DOMAIN body THEN None
        ELSE IF f \in DateFields /\ body[f].t = "str" THEN Date(parse_date(body[f].v))
        ELSE body[f]]

\* FastAPI's JSON rendering of a parsed record (the "record" of an answer)
jsonable(record) ==
    [f \in FieldNames |->
        IF record[f].t = "date" THEN Str(isoformat(record[f].v)) ELSE record[f]]

-----------------------------------------------------------------------------
(* The multi-select pipeline: the join in the endpoint,                    *)
(* format_array_for_postgres, and the CAST to TEXT[] in the database.      *)

RECURSIVE join(_, _)
\* sep.join(items)
join(sep, items) ==
    IF items = <<>> THEN <<>>
    ELSE IF Len(items) = 1 THEN items[1]
    ELSE items[1] \o sep \o join(sep, Tail(items))

RECURSIVE escape_quotes(_)
\* item.replace: a backslash before every double quote
escape_quotes(text) ==
    IF text = <<>> THEN <<>>
    ELSE (IF Head(text) = QUOTE THEN <<"\\", QUOTE>> ELSE <<Head(text)>>)
         \o escape_quotes(Tail(text))

\* the list branch of format_array_for_postgres: each item quoted
quoted_items(items) == [i \in DOMAIN items |-> <<QUOTE>> \o escape_quotes(items[i]) \o <<QUOTE>>]

\* format_array_for_postgres that quotes a str as it quotes the items of a list
format_array_for_postgres_quoting_str(value) ==
    IF value.v = <<>> THEN <<LBRACE, RBRACE>>
    ELSE IF value.t = "str"
        THEN <<LBRACE, QUOTE>> \o escape_quotes(value.v) \o <<QUOTE, RBRACE>>
    ELSE <<LBRACE>> \o join(<<COMMA>>, quoted_items(value.v)) \o <<RBRACE>>

\* format_array_for_postgres(value), value a str or a list of str
format_array_for_postgres(value) ==
    IF value.v = <<>> THEN <<LBRACE, RBRACE>>
    ELSE IF value.t = "str" THEN <<LBRACE>> \o value.v \o <<RBRACE>>
    ELSE <<LBRACE>> \o join(<<COMMA>>, quoted_items(value.v)) \o <<RBRACE>>

RECURSIVE split_items(_, _, _)
\* the elements of an array literal's inside, cut at the commas outside quotes
split_items(text, cur, inq) ==
    IF text = <<>> THEN <<cur>>
    ELSE IF Head(text) = "\\" /\ inq /\ Len(text) > 1 THEN
        split_items(Tail(Tail(text)), cur \o <<"\\", text[2]>>, inq)
    ELSE IF Head(text) = QUOTE THEN split_items(Tail(text), Append(cur, QUOTE), ~inq)
    ELSE IF Head(text) = COMMA /\ ~inq THEN <<cur>> \o split_items(Tail(text), <<>>, FALSE)
    ELSE split_items(Tail(text), Append(cur, Head(text)), inq)

RECURSIVE lstrip(_)
lstrip(text) == IF text # <<>> /\ Head(text) = SP THEN lstrip(Tail(text)) ELSE text

RECURSIVE rstrip(_)
rstrip(text) ==
    IF text # <<>> /\ text[Len(text)] = SP THEN rstrip(SubSeq(text, 1, Len(text) - 1)) ELSE text

RECURSIVE unescape(_)
unescape(text) ==
    IF text = <<>> THEN <<>>
    ELSE IF Head(text) = "\\" /\ Len(text) > 1 THEN <<text[2]>> \o unescape(Tail(Tail(text)))
    ELSE <<Head(text)>> \o unescape(Tail(text))

\* one element of an array literal: quoted text is taken as is, bare text trimmed
array_element(text) ==
    LET t == rstrip(lstrip(text)) IN
    IF Len(t) >= 2 /\ t[1] = QUOTE /\ t[Len(t)] = QUOTE
    THEN unescape(SubSeq(t, 2, Len(t) - 1))
    ELSE t

\* CAST(text AS TEXT[]): PostgreSQL's array input of a one-dimensional literal
cast_text_array(text) ==
    LET inner == SubSeq(text, 2, Len(text) - 1) IN
    IF rstrip(lstrip(inner)) = <<>> THEN <<>>
    ELSE LET parts == split_items(inner, <<>>, FALSE) IN
         [i \in DOMAIN parts |-> array_element(parts[i])]


-----------------------------------------------------------------------------
(* Passwords and tokens: passlib's bcrypt context and python-jose, as      *)
(* src/main.py uses them.                                                  *)

\* pwd_context.hash(password): a salted hash; the salt is drawn afresh
pwd_context_hash(password, salt) ==
    [scheme |-> "bcrypt", salt |-> salt, digest |-> <<password, salt>>]

\* pwd_context.verify(plain_password, password_hash)
verify_password(plain_password, password_hash) ==
    password_hash.digest = <<plain_password, password_hash.salt>>

\* the HS256 signature of a claim set under a key
hs256(claims, key) == [signed |-> claims, key |-> key]

\* jwt.encode(claims, key, algorithm=ALGORITHM)
jwt_encode(claims, key) == [kind |-> "jwt", claims |-> claims, sig |-> hs256(claims, key)]

\* jwt.decode that does not look at the exp claim
jwt_decode_ignoring_exp(token, key, t) ==
    IF token.kind # "jwt" THEN [ok |-> FALSE, error |-> "JWTError"]
    ELSE IF token.sig # hs256(token.claims, key) THEN [ok |-> FALSE, error |-> "JWTError"]
    ELSE [ok |-> TRUE, payload |-> token.claims]

\* jwt.decode(token, key, algorithms=[ALGORITHM]) at time t: the claims, or JWTError
jwt_decode(token, key, t) ==
    IF token.kind # "jwt" THEN [ok |-> FALSE, error |-> "JWTError"]
    ELSE IF token.sig # hs256(token.claims, key) THEN [ok |-> FALSE, error |-> "JWTError"]
    ELSE IF "exp" \in DOMAIN token.claims /\ token.claims.exp < t
        THEN [ok |-> FALSE, error |-> "ExpiredSignatureError"]
    ELSE [ok |-> TRUE, payload |-> token.claims]

\* create_access_token(data, expires_delta) called at time t; expires_delta 0 is falsy
create_access_token(data, expires_delta, t) ==
    LET expire == IF expires_delta # 0 THEN t + expires_delta
                  ELSE t + ACCESS_TOKEN_EXPIRE_MINUTES
        to_encode == [k \in DOMAIN data \cup {"exp"} |->
                        IF k = "exp" THEN expire ELSE data[k]]
    IN jwt_encode(to_encode, SECRET_KEY)

-----------------------------------------------------------------------------
(* db_helper.py: the users table *)

\* get_user(db, username): the row, or None
get_user(U, username) ==
    IF \E u \in U : u.username = username
    THEN CHOOSE u \in U : u.username = username
    ELSE None

\* create_user on a users table without the UNIQUE constraint on username
create_user_not_unique(U, seq, username, password_hash) ==
    [ok |-> TRUE,
     users |-> U \cup {[id |-> seq + 1, username |-> username,
                        password_hash |-> password_hash]},
     seq |-> seq + 1]

\* create_user(db, username, password_hash): INSERT and commit; username is UNIQUE
create_user(U, seq, username, password_hash) ==
    IF \E u \in U : u.username = username
    THEN [ok |-> FALSE, error |-> "IntegrityError", users |-> U, seq |-> seq + 1]
    ELSE [ok |-> TRUE,
          users |-> U \cup {[id |-> seq + 1, username |-> username,
                             password_hash |-> password_hash]},
          seq |-> seq + 1]

\* authenticate_user that only looks the user up
authenticate_user_without_verify(U, username, password) ==
    get_user(U, username) # None

\* authenticate_user(db, username, password)
authenticate_user(U, username, password) ==
    LET user == get_user(U, username) IN
    IF user = None \/ ~verify_password(password, user.password_hash) THEN FALSE ELSE TRUE

\* the request carries no Authorization header / a string that is no JWT
NoToken == [kind |-> "none"]
Garbage == [kind |-> "garbage"]

\* get_current_user that trusts the subject of a valid token without looking it up
get_current_user_without_lookup(token, U, t) ==
    IF token.kind = "none" THEN [ok |-> FALSE, status |-> 401, detail |-> "Not authenticated"]
    ELSE LET decoded == jwt_decode(token, SECRET_KEY, t)
             credentials_exception ==
                 [ok |-> FALSE, status |-> 401, detail |-> "Could not validate credentials"]
         IN IF ~decoded.ok THEN credentials_exception
            ELSE IF "sub" \notin DOMAIN decoded.payload THEN credentials_exception
            ELSE [ok |-> TRUE, user |-> get_user(U, decoded.payload.sub)]

\* the dependency get_current_user (behind oauth2_scheme): the user, or 401
get_current_user(token, U, t) ==
    IF token.kind = "none" THEN [ok |-> FALSE, status |-> 401, detail |-> "Not authenticated"]
    ELSE LET decoded == jwt_decode(token, SECRET_KEY, t)
             credentials_exception ==
                 [ok |-> FALSE, status |-> 401, detail |-> "Could not validate credentials"]
         IN IF ~decoded.ok THEN credentials_exception
            ELSE IF "sub" \notin DOMAIN decoded.payload THEN credentials_exception
            ELSE LET user == get_user(U, decoded.payload.sub) IN
                 IF user = None THEN credentials_exception
                 ELSE [ok |-> TRUE, user |-> user]

-----------------------------------------------------------------------------
(* The handlers' error wrapper: every handler body runs inside             *)
(*     try: ... except Exception as e: raise HTTPException(500, str(e))    *)
(* and HTTPException is itself an Exception.                               *)

\* an outcome of a handler body: a returned answer or a raised HTTPException
Return(body) == [kind |-> "return", status |-> 200, detail |-> "", body |-> body]
Raise(status_code, detail) ==
    [kind |-> "raise", status |-> status_code, detail |-> detail, body |-> None]

\* an exception that is no HTTPException, with its message
Throw(message) == [kind |-> "raise", status |-> 0, detail |-> message, body |-> None]

\* str(e) of the exception caught by a handler: the message of an exception
\* that is no HTTPException; of an HTTPException the text that the installed
\* Starlette gives it, which is kept here as the exception it is the text of
str_e(outcome) ==
    IF outcome.status = 0 THEN outcome.detail
    ELSE [exception |-> "HTTPException", status_code |-> outcome.status,
          detail |-> outcome.detail]

\* what the client gets for an outcome raised or returned inside the try block
try_except(outcome) ==
    IF outcome.kind = "raise"
    THEN [outcome EXCEPT !.status = 500, !.detail = str_e(outcome)]
    ELSE outcome


-----------------------------------------------------------------------------
(* db_helper.py: the inspections table *)

\* get_inspection(db, inspection_id): the row, or None
get_inspection(T, inspection_id) ==
    IF \E r \in T : r.id = inspection_id
    THEN CHOOSE r \in T : r.id = inspection_id
    ELSE None

\* get_all_inspections(db)
get_all_inspections(T) == T

\* the column values an INSERT or UPDATE writes for inspection_data:
\* the scalar parameters as they are, the two arrays through
\* format_array_for_postgres and the CAST to TEXT[]
column_values(inspection_data) ==
    [f \in FieldNames |->
        IF f \in ListFields
        THEN List(cast_text_array(format_array_for_postgres(inspection_data[f])))
        ELSE inspection_data[f]]

\* the id the serial column hands to the next INSERT
next_inspection_id(seq) == seq + 1

\* create_inspection whose id sequence does not advance
create_inspection_same_id(T, seq, inspection_data) ==
    LET inspection_id == next_inspection_id(seq)
        inserted == T \cup {[id |-> inspection_id, data |-> column_values(inspection_data)]}
    IN [inspections |-> inserted,
        seq |-> seq,
        row |-> get_inspection(inserted, inspection_id)]

\* create_inspection(db, inspection_data): INSERT ... RETURNING id, commit, read back
create_inspection(T, seq, inspection_data) ==
    LET inspection_id == next_inspection_id(seq)
        inserted == T \cup {[id |-> inspection_id, data |-> column_values(inspection_data)]}
    IN [inspections |-> inserted,
        seq |-> inspection_id,
        row |-> get_inspection(inserted, inspection_id)]

\* update_inspection whose UPDATE has no WHERE clause
update_inspection_every_row(T, inspection_id, inspection_data) ==
    LET updated == {[r EXCEPT !.data = column_values(inspection_data)] : r \in T}
    IN [inspections |-> updated, row |-> get_inspection(updated, inspection_id)]

\* update_inspection whose UPDATE leaves a column alone when its value is None
update_inspection_skipping_none(T, inspection_id, inspection_data) ==
    LET written == column_values(inspection_data)
        updated == {IF r.id = inspection_id
                    THEN [r EXCEPT !.data = [f \in FieldNames |->
                              IF written[f] = None THEN r.data[f] ELSE written[f]]]
                    ELSE r : r \in T}
    IN [inspections |-> updated, row |-> get_inspection(updated, inspection_id)]

\* update_inspection that inserts the row when no row has the id
update_inspection_upserting(T, inspection_id, inspection_data) ==
    LET updated == {r \in T : r.id # inspection_id}
                      \cup {[id |-> inspection_id, data |-> column_values(inspection_data)]}
    IN [inspections |-> updated, row |-> get_inspection(updated, inspection_id)]

\* update_inspection(db, inspection_id, inspection_data): UPDATE ... WHERE id, commit, read back
update_inspection(T, inspection_id, inspection_data) ==
    LET updated == {IF r.id = inspection_id
                    THEN [r EXCEPT !.data = column_values(inspection_data)]
                    ELSE r : r \in T}
    IN [inspections |-> updated, row |-> get_inspection(updated, inspection_id)]

\* delete_inspection(db, inspection_id): DELETE ... WHERE id, commit
delete_inspection(T, inspection_id) ==
    [inspections |-> {r \in T : r.id # inspection_id}, success |-> TRUE]

-----------------------------------------------------------------------------
(* main.py: what the endpoints compute *)

\* record.dict() with the two lists joined into comma separated strings
inspection_data_of(record) ==
    [f \in FieldNames |->
        IF f \in ListFields THEN Str(join(<<COMMA, SP>>, record[f].v)) ELSE record[f]]

\* the dictionary of a row with its dates left as date objects
inspection_dict_raw_dates(inspection) ==
    [f \in FieldNames \cup {"row_number"} |->
        IF f = "row_number" THEN Num(inspection.id) ELSE inspection.data[f]]

\* the dictionary the two GET endpoints build from a row
inspection_dict(inspection) ==
    [f \in FieldNames \cup {"row_number"} |->
        IF f = "row_number" THEN Num(inspection.id)
        ELSE IF f \in DateFields THEN
            (IF inspection.data[f] # None
             THEN Str(isoformat(inspection.data[f].v)) ELSE None)
        ELSE inspection.data[f]]

\* register that overwrites the password of an existing user
register_body_upsert(U, seq, username, password, salt) ==
    LET user == get_user(U, username)
        password_hash == pwd_context_hash(password, salt)
    IN
    IF user # None
    THEN [out |-> Return([msg |-> "User registered successfully."]),
          users |-> (U \ {user}) \cup {[user EXCEPT !.password_hash = password_hash]},
          seq |-> seq]
    ELSE LET made == create_user(U, seq, username, password_hash) IN
         [out |-> Return([msg |-> "User registered successfully."]),
          users |-> made.users, seq |-> made.seq]

\* register: the handler body
register_body(U, seq, username, password, salt) ==
    LET user == get_user(U, username) IN
    IF user # None
    THEN [out |-> Raise(400, "Username already registered"), users |-> U, seq |-> seq]
    ELSE LET made == create_user(U, seq, username, pwd_context_hash(password, salt)) IN
         IF made.ok
         THEN [out |-> Return([msg |-> "User registered successfully."]),
               users |-> made.users, seq |-> made.seq]
         ELSE [out |-> Throw(made.error), users |-> U, seq |-> made.seq]

\* login: the handler body
login_body(U, username, password, t) ==
    IF ~authenticate_user(U, username, password)
    THEN Raise(401, "Invalid credentials")
    ELSE Return([access_token |-> create_access_token([sub |-> username], 0, t),
                 token_type |-> "bearer"])

\* create_inspection_endpoint: the handler body
create_body(T, seq, record) ==
    LET made == create_inspection(T, seq, inspection_data_of(record)) IN
    [out |-> Return([status |-> "added", id |-> made.row.id, record |-> jsonable(record)]),
     inspections |-> made.inspections, seq |-> made.seq]

\* get_inspection_by_id_endpoint: the handler body
get_body(T, inspection_id) ==
    LET inspection == get_inspection(T, inspection_id) IN
    IF inspection = None
    THEN Raise(404, "Inspection not found")
    ELSE Return(inspection_dict(inspection))

\* get_all_inspections_endpoint: the handler body
list_body(T) ==
    Return([inspections |-> {inspection_dict(r) : r \in get_all_inspections(T)}])

\* update_inspection_endpoint: the handler body
update_body(T, inspection_id, record) ==
    LET db_inspection == get_inspection(T, inspection_id) IN
    IF db_inspection = None
    THEN [out |-> Raise(404, "Inspection not found"), inspections |-> T]
    ELSE LET done == update_inspection(T, inspection_id, inspection_data_of(record)) IN
         [out |-> Return([status |-> "updated", id |-> done.row.id,
                          record |-> jsonable(record)]),
          inspections |-> done.inspections]

\* delete_inspection_endpoint: the handler body
delete_body(T, inspection_id) ==
    LET db_inspection == get_inspection(T, inspection_id) IN
    IF db_inspection = None
    THEN [out |-> Raise(404, "Inspection not found"), inspections |-> T]
    ELSE LET done == delete_inspection(T, inspection_id) IN
         IF ~done.success
         THEN [out |-> Raise(500, "Failed to delete inspection"),
               inspections |-> done.inspections]
         ELSE [out |-> Return([status |-> "deleted", id |-> inspection_id]),
               inspections |-> done.inspections]


-----------------------------------------------------------------------------
(* The HTTP exchange kept in resp *)

NoExchange == [op |-> "none", status |-> 0, detail |-> "", body |-> None]

\* an exchange with /register or /login
AuthExchange(op, username, password, out) ==
    [op |-> op, username |-> username, password |-> password,
     status |-> out.status, detail |-> out.detail, body |-> out.body]

\* an exchange with an inspection endpoint; entered: the handler body ran
Exchange(op, token, inspection_id, request, entered, out) ==
    [op |-> op, token |-> token, id |-> inspection_id, request |-> request,
     entered |-> entered, status |-> out.status, detail |-> out.detail,
     body |-> out.body]

EmptyBody == [f \in {} |-> None]

InspectionOps == {"create", "get", "list", "update", "delete"}

-----------------------------------------------------------------------------
(* Actions: one per endpoint, plus the passing of time *)

\* POST /register
Register(username, password, salt) ==
    LET r == register_body(users, users_id_seq, username, password, salt) IN
    /\ resp' = AuthExchange("register", username, password, try_except(r.out))
    /\ users' = r.users
    /\ users_id_seq' = r.seq
    /\ UNCHANGED <<inspections, inspections_id_seq, now, issued>>
    /\ UNCHANGED <<calls, migration, dash_vars>>

\* POST /login
Login(username, password) ==
    LET out == try_except(login_body(users, username, password, now))
        handed == IF out.status = 200 THEN issued \cup {out.body.access_token} ELSE issued
    IN
    /\ Cardinality(handed) <= MaxTokens
    /\ resp' = AuthExchange("login", username, password, out)
    /\ issued' = handed
    /\ UNCHANGED <<users, users_id_seq, inspections, inspections_id_seq, now>>
    /\ UNCHANGED <<calls, migration, dash_vars>>

\* POST /inspection; limit bounds the rows ever inserted
CreateInspection(token, body, limit) ==
    LET current_user == get_current_user(token, users, now) IN
    /\ (current_user.ok /\ InspectionRecord_valid(body)) => inspections_id_seq < limit
    /\ IF ~current_user.ok THEN
            /\ resp' = Exchange("create", token, 0, body, FALSE,
                                Raise(current_user.status, current_user.detail))
            /\ UNCHANGED <<inspections, inspections_id_seq>>
       ELSE IF ~InspectionRecord_valid(body) THEN
            /\ resp' = Exchange("create", token, 0, body, FALSE,
                                Raise(422, "value is not a valid InspectionRecord"))
            /\ UNCHANGED <<inspections, inspections_id_seq>>
       ELSE LET r == create_body(inspections, inspections_id_seq, InspectionRecord(body)) IN
            /\ resp' = Exchange("create", token, 0, body, TRUE, try_except(r.out))
            /\ inspections' = r.inspections
            /\ inspections_id_seq' = r.seq
    /\ UNCHANGED <<users, users_id_seq, now, issued>>
    /\ UNCHANGED <<calls, migration, dash_vars>>

\* GET /inspections/{inspection_id}
GetInspection(token, inspection_id) ==
    LET current_user == get_current_user(token, users, now) IN
    /\ IF ~current_user.ok THEN
            resp' = Exchange("get", token, inspection_id, EmptyBody, FALSE,
                             Raise(current_user.status, current_user.detail))
       ELSE resp' = Exchange("get", token, inspection_id, EmptyBody, TRUE,
                             try_except(get_body(inspections, inspection_id)))
    /\ UNCHANGED <<users, users_id_seq, inspections, inspections_id_seq, now, issued>>
    /\ UNCHANGED <<calls, migration, dash_vars>>

\* GET /inspections
ListInspections(token) ==
    LET current_user == get_current_user(token, users, now) IN
    /\ IF ~current_user.ok THEN
            resp' = Exchange("list", token, 0, EmptyBody, FALSE,
                             Raise(current_user.status, current_user.detail))
       ELSE resp' = Exchange("list", token, 0, EmptyBody, TRUE,
                             try_except(list_body(inspections)))
    /\ UNCHANGED <<users, users_id_seq, inspections, inspections_id_seq, now, issued>>
    /\ UNCHANGED <<calls, migration, dash_vars>>

\* PUT /inspection/{inspection_id}
UpdateInspection(token, inspection_id, body) ==
    LET current_user == get_current_user(token, users, now) IN
    /\ IF ~current_user.ok THEN
            /\ resp' = Exchange("update", token, inspection_id, body, FALSE,
                                Raise(current_user.status, current_user.detail))
            /\ UNCHANGED inspections
       ELSE IF ~InspectionRecord_valid(body) THEN
            /\ resp' = Exchange("update", token, inspection_id, body, FALSE,
                                Raise(422, "value is not a valid InspectionRecord"))
            /\ UNCHANGED inspections
       ELSE LET r == update_body(inspections, inspection_id, InspectionRecord(body)) IN
            /\ resp' = Exchange("update", token, inspection_id, body, TRUE, try_except(r.out))
            /\ inspections' = r.inspections
    /\ UNCHANGED <<users, users_id_seq, inspections_id_seq, now, issued>>
    /\ UNCHANGED <<calls, migration, dash_vars>>

\* DELETE /inspection/{inspection_id}
DeleteInspection(token, inspection_id) ==
    LET current_user == get_current_user(token, users, now) IN
    /\ IF ~current_user.ok THEN
            /\ resp' = Exchange("delete", token, inspection_id, EmptyBody, FALSE,
                                Raise(current_user.status, current_user.detail))
            /\ UNCHANGED inspections
       ELSE LET r == delete_body(inspections, inspection_id) IN
            /\ resp' = Exchange("delete", token, inspection_id, EmptyBody, TRUE,
                                try_except(r.out))
            /\ inspections' = r.inspections
    /\ UNCHANGED <<users, users_id_seq, inspections_id_seq, now, issued>>
    /\ UNCHANGED <<calls, migration, dash_vars>>

\* time passes
Tick ==
    /\ now + TickMinutes <= MaxTime
    /\ now' = now + TickMinutes
    /\ UNCHANGED <<users, users_id_seq, inspections, inspections_id_seq, issued, resp>>
    /\ UNCHANGED <<calls, migration, dash_vars>>


-----------------------------------------------------------------------------
(* The requests the clients send *)

\* a body with key f set to v / with key f left out
with(body, f, v) == [g \in DOMAIN body \cup {f} |-> IF g = f THEN v ELSE body[g]]
without(body, f) == [g \in DOMAIN body \ {f} |-> body[g]]

\* a complete, valid record
BaseBody ==
    [f \in FieldNames |->
        IF f \in StrFields THEN Str("alpha")
        ELSE IF f = "vcp_status" THEN Str("Completed")
        ELSE IF f = "fire_protection_system_obsolete" THEN Str("Obsolete")
        ELSE IF f \in LiteralFields /\ Allowed(f) = Condition THEN Str("Good")
        ELSE IF f \in LiteralFields THEN Str("Yes")
        ELSE IF f = "hvac_type" THEN List(<< <<"Split">> >>)
        ELSE IF f = "power_source" THEN List(<< <<"110V">>, <<"220V">> >>)
        ELSE IF f \in DateFields THEN Str("2024-01-31")
        ELSE Num(3)]

\* another valid record, different in every field; optional fields null or left out
AltBody ==
    [f \in FieldNames \ {"vcp_planned_date", "latitude"} |->
        IF f \in StrFields THEN Str("beta")
        ELSE IF f = "vcp_status" THEN Str("Not Applicable")
        ELSE IF f = "fire_protection_system_obsolete" THEN Str("Not Obsolete")
        ELSE IF f \in LiteralFields /\ Allowed(f) = Condition THEN Str("Poor")
        ELSE IF f \in LiteralFields THEN Str("No")
        ELSE IF f = "hvac_type" THEN List(<< <<"Duct", SP, "Concealed">>, <<"Window">> >>)
        ELSE IF f = "power_source" THEN List(<< >>)
        ELSE IF f = "water_proofing_warranty_date" THEN Str("2025-12-01")
        ELSE IF f = "hvac_condition" THEN Num(0)
        ELSE None]

\* the fields the data model calls required-non-empty
RequiredFields ==
    { "function_location_id", "building_name", "facility_type", "sprinkler",
      "fire_alarm", "vcp_status", "full_inspection_completed" }

\* the records sent to POST /inspection and PUT /inspection/{id}
Bodies ==
    {BaseBody, AltBody}
    \cup {with(BaseBody, f, Str("")) : f \in RequiredFields}
    \cup {without(BaseBody, f) : f \in RequiredFields}
    \cup {with(BaseBody, f, None) : f \in {"building_name", "sprinkler"}}
    \cup {with(BaseBody, f, Str("Maybe")) : f \in LiteralFields}
    \cup {with(BaseBody, "hvac_type", List(<< <<"Split">>, <<"Central">> >>)),
          with(BaseBody, "power_source", List(<< <<"12V">> >>)),
          with(BaseBody, "hvac_type", Str("Split")),
          without(BaseBody, "power_source")}
    \cup {with(BaseBody, "vcp_planned_date", Str("31/01/2024")),
          with(BaseBody, "hvac_condition", Str("good"))}

\* the records sent to PUT /inspection/{id}
UpdateBodies ==
    { BaseBody, AltBody,
      with(BaseBody, "building_name", Str("")),
      without(BaseBody, "building_name"),
      with(BaseBody, "sprinkler", Str("Maybe")) }

\* the ids sent as path parameter
Ids == 1 .. MaxInspections
GateIds == 1 .. MaxGateInspections

\* a token whose content was altered after it was issued: another subject,
\* a later expiry, or another signature
Tampered(token) ==
    { [token EXCEPT !.claims.sub = "root"],
      [token EXCEPT !.claims.exp = @ + ACCESS_TOKEN_EXPIRE_MINUTES],
      [token EXCEPT !.sig.key = "guessed-key"] }

\* tokens nobody was issued: signed with another key, or signed but without a
\* subject, or signed for a subject that is no user
Forged(t) ==
    { jwt_encode([sub |-> "admin", exp |-> t + ACCESS_TOKEN_EXPIRE_MINUTES], "guessed-key"),
      jwt_encode([exp |-> t + ACCESS_TOKEN_EXPIRE_MINUTES], SECRET_KEY),
      jwt_encode([sub |-> "ghost", exp |-> t + ACCESS_TOKEN_EXPIRE_MINUTES], SECRET_KEY) }

\* every Authorization header a client may send
PresentedTokens ==
    {NoToken, Garbage} \cup issued \cup UNION {Tampered(k) : k \in issued} \cup Forged(now)

\* the header of a logged-in client: a token it was issued
ClientTokens == issued

-----------------------------------------------------------------------------
(* Specifications *)

\* the requests that can be in the handlers at the same time (FastAPI runs
\* the def endpoints on the threads of a pool)
Callers == {"c1", "c2"}

\* no request of the caller is being served
Idle == [pc |-> "idle"]

\* no callback has run
\* callback: the callback that ran last; sent: it made an HTTP call;
\* status: the status code of the answer, 0 without an answer
Fired(callback, sent, status) == [callback |-> callback, sent |-> sent, status |-> status]

NotFired == Fired("none", FALSE, 0)

\* no click on Submit is being handled
NotRunning == [show |-> FALSE, submit |-> "none"]

\* the forms as the layout has them: the modal closed, the stores empty
InitForms ==
    /\ fired = NotFired
    /\ modal = FALSE
    /\ running = NotRunning
    /\ listing = None
    /\ editing = None

\* migrate_data.py is not running
NotMigrating == [sheet |-> <<>>, at |-> 1, run |-> 0, first |-> {}]

\* no request is being served and the dashboard is not open in a browser
InitClients ==
    /\ calls = [c \in Callers |-> Idle]
    /\ migration = NotMigrating
    /\ pathname = <<"/">>
    /\ token_store = None
    /\ pending = FALSE
    /\ notice = <<>>
    /\ InitForms

\* the database as create_default_user leaves it: the admin user, no inspections
Init ==
    /\ users = {[id |-> 1, username |-> "admin",
                 password_hash |-> pwd_context_hash("admin", "salt-a")]}
    /\ users_id_seq = 1
    /\ inspections = {}
    /\ inspections_id_seq = 0
    /\ now = 0
    /\ issued = {}
    /\ resp = NoExchange
    /\ InitClients

\* the inspection API as its clients use it
Next ==
    \/ \E u \in {"admin", "ghost"}, p \in {"admin", "letmein"} : Login(u, p)
    \/ \E k \in ClientTokens, b \in Bodies : CreateInspection(k, b, MaxInspections)
    \/ \E k \in ClientTokens, i \in Ids : GetInspection(k, i)
    \/ \E k \in ClientTokens : ListInspections(k)
    \/ \E k \in ClientTokens, i \in Ids, b \in UpdateBodies : UpdateInspection(k, i, b)
    \/ \E k \in ClientTokens, i \in Ids : DeleteInspection(k, i)

Spec == Init /\ [][Next]_vars

\* the inspection API under every kind of Authorization header, over time
NextGate ==
    \/ \E u \in {"admin", "ghost"}, p \in {"admin", "letmein"} : Login(u, p)
    \/ Tick
    \/ \E k \in PresentedTokens, b \in {BaseBody, without(BaseBody, "sprinkler")} :
          CreateInspection(k, b, MaxGateInspections)
    \/ \E k \in PresentedTokens, i \in GateIds : GetInspection(k, i)
    \/ \E k \in PresentedTokens : ListInspections(k)
    \/ \E k \in PresentedTokens, i \in GateIds : UpdateInspection(k, i, AltBody)
    \/ \E k \in PresentedTokens, i \in GateIds : DeleteInspection(k, i)

SpecGate == Init /\ [][NextGate]_vars

\* an empty database
InitAuth ==
    /\ users = {}
    /\ users_id_seq = 0
    /\ inspections = {}
    /\ inspections_id_seq = 0
    /\ now = 0
    /\ issued = {}
    /\ resp = NoExchange
    /\ InitClients

Usernames == {"alice", "bob"}
Passwords == {"pw1", "pw2"}
Salts == {"salt-a", "salt-b"}

\* registration and login, with inspections being added by logged-in users
NextAuth ==
    \/ \E u \in Usernames, p \in Passwords, s \in Salts : Register(u, p, s)
    \/ \E u \in Usernames, p \in Passwords : Login(u, p)
    \/ \E k \in ClientTokens \cup {NoToken} : CreateInspection(k, BaseBody, MaxGateInspections)

SpecAuth == InitAuth /\ [][NextAuth]_vars


-----------------------------------------------------------------------------
(* Properties *)

\* the step is a call to one of the five inspection endpoints
InspectionCall == resp'.op \in InspectionOps /\ resp' # resp

\* a header that is no token of a stored user: none at all, no JWT, a wrong
\* signature, an expiry in the past, no subject, or a subject that is no user
Unauthorized(token, U, t) ==
    \/ token.kind # "jwt"
    \/ token.sig # hs256(token.claims, SECRET_KEY)
    \/ "exp" \in DOMAIN token.claims /\ token.claims.exp < t
    \/ "sub" \notin DOMAIN token.claims
    \/ \A u \in U : u.username # token.claims.sub

\* C1: a call to an inspection endpoint without a token of a stored user gets
\* 401, the handler body does not run, the answer carries no data and the
\* inspections table and its id sequence stay as they were
C1_UnauthorizedCallsDoNothing ==
    [][ (InspectionCall /\ Unauthorized(resp'.token, users, now)) =>
            /\ resp'.status = 401
            /\ ~resp'.entered
            /\ resp'.body = None
            /\ inspections' = inspections
            /\ inspections_id_seq' = inspections_id_seq ]_vars

\* C1 witness: a validly signed token of a subject that is no user was turned
\* away from DELETE while the row it named is there
C1_Witness ==
    /\ resp.op = "delete"
    /\ resp.status = 401
    /\ resp.token = jwt_encode([sub |-> "ghost", exp |-> now + ACCESS_TOKEN_EXPIRE_MINUTES],
                               SECRET_KEY)
    /\ \E r \in inspections : r.id = resp.id

\* C2: login puts the expiry ACCESS_TOKEN_EXPIRE_MINUTES after the time of the
\* call; an issued token passes the gate of every inspection endpoint before
\* its expiry and gets 401 after it; an issued token with altered content
\* gets 401 at any time
C2_TokenLifetime ==
    [][ /\ (resp'.op = "login" /\ resp' # resp /\ resp'.status = 200) =>
               resp'.body.access_token.claims.exp = now + ACCESS_TOKEN_EXPIRE_MINUTES
        /\ (InspectionCall /\ resp'.token \in issued /\ now < resp'.token.claims.exp) =>
               resp'.status # 401 /\ (resp'.entered \/ resp'.status = 422)
        /\ (InspectionCall /\ resp'.token \in issued /\ now > resp'.token.claims.exp) =>
               resp'.status = 401 /\ ~resp'.entered
        /\ (InspectionCall /\ \E k \in issued : resp'.token \in Tampered(k)) =>
               resp'.status = 401 /\ ~resp'.entered ]_vars

\* C2 witness: an issued token was turned away after its expiry
C2_Witness ==
    /\ resp.op \in InspectionOps
    /\ resp.token \in issued
    /\ now > resp.token.claims.exp
    /\ resp.status = 401


\* the users table holds a row for this username
Registered(U, username) == \E u \in U : u.username = username

\* C3: registering a username that is already registered fails and leaves the
\* users table as it was: one row for the username, with the hash it had
C3_DuplicateRegisterChangesNothing ==
    [][ (resp'.op = "register" /\ Registered(users, resp'.username)) =>
            /\ resp'.status >= 400
            /\ users' = users
            /\ Cardinality({u \in users' : u.username = resp'.username}) = 1 ]_vars

\* C3 witness: a second registration, with another password than the stored
\* one, was refused
C3_Witness ==
    /\ resp.op = "register"
    /\ resp.status >= 400
    /\ \E u \in users : /\ u.username = resp.username
                        /\ ~verify_password(resp.password, u.password_hash)

\* C4: registering a new username answers 200 and registering a registered
\* one answers 400 with the detail "Username already registered"
C4_RegisterStatus ==
    [][ resp'.op = "register" =>
            IF Registered(users, resp'.username)
            THEN resp'.status = 400 /\ resp'.detail = "Username already registered"
            ELSE resp'.status = 200 ]_vars

\* the stored hash of this username was made from this password
Credentials(U, username, password) ==
    \E u \in U : /\ u.username = username
                 /\ u.password_hash = pwd_context_hash(password, u.password_hash.salt)

\* C5: login returns a bearer token exactly when the username is registered
\* and the password is the one whose hash is stored; the token's subject is
\* the username and get_current_user resolves it to that user's row; login
\* changes neither table
C5_LoginIssuesToken ==
    [][ resp'.op = "login" =>
            /\ (resp'.body # None) <=> Credentials(users, resp'.username, resp'.password)
            /\ resp'.body # None =>
                 /\ resp'.status = 200
                 /\ resp'.body.token_type = "bearer"
                 /\ resp'.body.access_token.claims.sub = resp'.username
                 /\ get_current_user(resp'.body.access_token, users', now') =
                        [ok |-> TRUE,
                         user |-> CHOOSE u \in users : u.username = resp'.username]
            /\ users' = users
            /\ inspections' = inspections ]_vars

\* C5 witness: a login succeeded with two users registered and an inspection stored
C5_Witness ==
    /\ resp.op = "login"
    /\ resp.status = 200
    /\ resp.body.access_token \in issued
    /\ Cardinality(users) = 2
    /\ inspections # {}

\* C6: a login with an unknown username or a wrong password answers 401 and
\* issues no token
C6_BadLoginStatus ==
    [][ (resp'.op = "login" /\ ~Credentials(users, resp'.username, resp'.password)) =>
            /\ resp'.status = 401
            /\ resp'.body = None
            /\ issued' = issued ]_vars


\* a required field of the body is left out, null or the empty string
MissingRequired(body) ==
    \E f \in RequiredFields :
        f \notin DOMAIN body \/ body[f] = None \/ body[f] = Str("")

\* C7: a create whose body has a required field missing, null or empty is
\* rejected and the inspections table stays as it was
C7_MissingRequiredRejected ==
    [][ (resp'.op = "create" /\ MissingRequired(resp'.request)) =>
            /\ resp'.status >= 400
            /\ inspections' = inspections ]_vars

\* C8: every stored inspection has a non-empty value in each required field
C8_RequiredFieldsNonEmpty ==
    \A r \in inspections : \A f \in RequiredFields :
        r.data[f] # None /\ r.data[f] # Str("")

\* a categorical field of the body, or an element of one of its two lists,
\* is present and is not one of the allowed values
BadCategory(body) ==
    \/ \E f \in LiteralFields \cap DOMAIN body : body[f] \notin {Str(v) : v \in Allowed(f)}
    \/ \E f \in ListFields \cap DOMAIN body :
          /\ body[f].t = "list"
          /\ \E i \in DOMAIN body[f].v : body[f].v[i] \notin AllowedItems(f)

\* C9: a create whose body has a categorical field or a list element outside
\* its allowed values is rejected and no row is inserted
C9_BadCategoryRejected ==
    [][ (resp'.op = "create" /\ BadCategory(resp'.request)) =>
            /\ resp'.status >= 400
            /\ ~resp'.entered
            /\ inspections' = inspections
            /\ inspections_id_seq' = inspections_id_seq ]_vars

\* C9 witness: a create with roofing_condition "Maybe" was rejected while a
\* row was stored
C9_Witness ==
    /\ resp.op = "create"
    /\ resp.status = 422
    /\ resp.request = with(BaseBody, "roofing_condition", Str("Maybe"))
    /\ inspections # {}

\* the value GET /inspections/{id} is to give back for a field of a created body
Submitted(body, f) == IF f \in DOMAIN body THEN body[f] ELSE None

\* C10: a successful create adds exactly one row, leaves the rows that were
\* there as they were, and returns an id that no earlier row has and under
\* which GET /inspections/{id} gives back the submitted record
C10_CreateAddsOneRow ==
    [][ (resp'.op = "create" /\ resp'.status = 200) =>
            LET read == try_except(get_body(inspections', resp'.body.id)) IN
            /\ inspections \subseteq inspections'
            /\ Cardinality(inspections' \ inspections) = 1
            /\ \A r \in inspections : r.id # resp'.body.id
            /\ read.status = 200
            /\ read.body["row_number"] = Num(resp'.body.id)
            /\ \A f \in FieldNames : read.body[f] = Submitted(resp'.request, f) ]_vars

\* C10 witness: a record with a two-word list element, an empty list and
\* optional fields left out was created as the second row
C10_Witness ==
    /\ resp.op = "create"
    /\ resp.status = 200
    /\ resp.request = AltBody
    /\ Cardinality(inspections) = 2


-----------------------------------------------------------------------------
(* The multi-select round trip *)

RECURSIVE list_of(_)
\* a list holding the members of a set, each once
list_of(S) ==
    IF S = {} THEN <<>>
    ELSE LET x == CHOOSE y \in S : TRUE IN <<x>> \o list_of(S \ {x})

\* a valid record for every set of hvac types and every set of power sources
ArrayBodies ==
    {with(BaseBody, "hvac_type", List(list_of(S))) : S \in SUBSET HvacTypes}
    \cup {with(BaseBody, "power_source", List(list_of(S))) : S \in SUBSET PowerSources}

\* records with multi-select lists are created and read back
NextArrays ==
    \/ Login("admin", "admin")
    \/ \E k \in ClientTokens, b \in ArrayBodies : CreateInspection(k, b, MaxGateInspections)
    \/ \E k \in ClientTokens, i \in GateIds : GetInspection(k, i)

SpecArrays == Init /\ [][NextArrays]_vars

\* the members of a list value
Items(value) == {value.v[i] : i \in DOMAIN value.v}

-----------------------------------------------------------------------------
(* Update, delete, read and list *)

\* the handler body of an authorised call with a valid record ran and found
\* no row with the id of the call
AbsentId == resp'.entered /\ get_inspection(inspections, resp'.id) = None

\* C12: an update of an id that is not in the inspections table is answered
\* with 404, creates no row and changes no row
C12_UpdateAbsentNotFound ==
    [][ (resp'.op = "update" /\ AbsentId) =>
            /\ resp'.status = 404
            /\ inspections' = inspections ]_vars


\* C14: a delete of an id that is not in the inspections table is answered
\* with 404 and leaves the table as it was
C14_DeleteAbsentNotFound ==
    [][ (resp'.op = "delete" /\ AbsentId) =>
            /\ resp'.status = 404
            /\ inspections' = inspections ]_vars

\* a call for an absent id changes nothing, whatever its status
AbsentIdChangesNothing ==
    [][ (resp'.op \in {"update", "delete"} /\ AbsentId) =>
            /\ resp'.status = 500
            /\ inspections' = inspections
            /\ inspections_id_seq' = inspections_id_seq ]_vars


\* C13: a successful update leaves in the row of its id the submitted value
\* of every field, null where the record has none, keeps the ids of the table
\* and leaves every other row as it was
C13_UpdateOverwritesRow ==
    [][ (resp'.op = "update" /\ resp'.status = 200) =>
            LET read == try_except(get_body(inspections', resp'.id)) IN
            /\ resp'.body.id = resp'.id
            /\ {r.id : r \in inspections'} = {r.id : r \in inspections}
            /\ Cardinality(inspections') = Cardinality(inspections)
            /\ \A r \in inspections : r.id # resp'.id => r \in inspections'
            /\ read.status = 200
            /\ \A f \in FieldNames : read.body[f] = Submitted(resp'.request, f) ]_vars

\* C13 witness: a row was overwritten with a record that leaves optional
\* fields out, next to another row that holds other values
C13_Witness ==
    /\ resp.op = "update"
    /\ resp.status = 200
    /\ resp.request = AltBody
    /\ \E r \in inspections : r.id = resp.id /\ r.data["latitude"] = None
    /\ \E r \in inspections : r.id # resp.id /\ r.data["latitude"] # None


\* the id was handed out by the serial column and its row is gone
Deleted(T, seq, inspection_id) ==
    inspection_id \in 1..seq /\ get_inspection(T, inspection_id) = None

\* a successful delete removes the row of its id and no other, a deleted id
\* never gets a row again, and GET /inspections leaves deleted ids out
DeleteRemovesRow ==
    /\ (resp'.op = "delete" /\ resp'.status = 200) =>
            /\ get_inspection(inspections, resp'.id) # None
            /\ inspections' = inspections \ {get_inspection(inspections, resp'.id)}
    /\ \A i \in 1..inspections_id_seq :
            Deleted(inspections, inspections_id_seq, i) =>
                Deleted(inspections', inspections_id_seq', i)
    /\ (resp'.op = "list" /\ resp'.status = 200) =>
            \A i \in 1..inspections_id_seq' :
                Deleted(inspections', inspections_id_seq', i) =>
                    \A d \in resp'.body.inspections : d["row_number"] # Num(i)

\* the part of C15 about the table and the list
DeletedStaysDeleted == [][DeleteRemovesRow]_vars

\* C15: a delete of an existing id removes exactly that row, and from then on
\* a read of that id is answered with not-found (404) and the list does not
\* hold it
C15_DeleteThenNotFound ==
    [][ /\ DeleteRemovesRow
        /\ (/\ resp'.op = "get" /\ resp'.entered
            /\ Deleted(inspections', inspections_id_seq', resp'.id)) =>
                resp'.status = 404 ]_vars


\* d is the entry of the stored row r: row_number is the id, a date is its ISO
\* text or null, the two arrays are lists, every other field is the stored value
EntryOf(d, r) ==
    /\ DOMAIN d = FieldNames \cup {"row_number"}
    /\ d["row_number"] = Num(r.id)
    /\ \A f \in DateFields :
          IF r.data[f] = None THEN d[f] = None
          ELSE /\ d[f].t = "str"
               /\ d[f].v \in IsoDates
               /\ parse_date(d[f].v) = r.data[f].v
    /\ \A f \in ListFields : d[f].t = "list" /\ d[f].v = r.data[f].v
    /\ \A f \in FieldNames \ (DateFields \cup ListFields) : d[f] = r.data[f]

\* C16: the list has exactly one entry per stored row and no other entry, a
\* read of a stored id gives the entry of its row, and neither changes the
\* table
C16_ReadAndListVerbatim ==
    [][ /\ (resp'.op = "list" /\ resp'.entered) =>
              /\ resp'.status = 200
              /\ Cardinality(resp'.body.inspections) = Cardinality(inspections)
              /\ \A r \in inspections : \E d \in resp'.body.inspections : EntryOf(d, r)
              /\ \A d \in resp'.body.inspections : \E r \in inspections : EntryOf(d, r)
        /\ (resp'.op = "get" /\ resp'.status = 200) =>
              /\ get_inspection(inspections, resp'.id) # None
              /\ EntryOf(resp'.body, get_inspection(inspections, resp'.id))
        /\ resp'.op \in {"get", "list"} =>
              /\ inspections' = inspections
              /\ inspections_id_seq' = inspections_id_seq ]_vars

\* C16 witness: two rows were listed, one with both dates and one with a
\* date absent
C16_Witness ==
    /\ resp.op = "list"
    /\ resp.status = 200
    /\ Cardinality(resp.body.inspections) = 2
    /\ \E d \in resp.body.inspections : d["vcp_planned_date"] = None
    /\ \E d \in resp.body.inspections : d["vcp_planned_date"] \in {Str(s) : s \in IsoDates}


-----------------------------------------------------------------------------
(* The users table under every endpoint *)

\* registration and login, with every inspection endpoint called with and
\* without a token
NextUsers ==
    \/ \E u \in Usernames, p \in Passwords, s \in Salts : Register(u, p, s)
    \/ \E u \in Usernames, p \in Passwords : Login(u, p)
    \/ \E k \in ClientTokens \cup {NoToken} : CreateInspection(k, BaseBody, MaxGateInspections)
    \/ \E k \in ClientTokens \cup {NoToken}, i \in GateIds : GetInspection(k, i)
    \/ \E k \in ClientTokens \cup {NoToken} : ListInspections(k)
    \/ \E k \in ClientTokens \cup {NoToken}, i \in GateIds : UpdateInspection(k, i, AltBody)
    \/ \E k \in ClientTokens \cup {NoToken}, i \in GateIds : DeleteInspection(k, i)

SpecUsers == InitAuth /\ [][NextUsers]_vars

\* C18: no step updates or deletes a user row: every row of the users table
\* is in the table after the step, with the id, the username and the password
\* hash it had, and stays the only row of its username
C18_UserRowsNeverChange ==
    [][ \A u \in users :
            /\ u \in users'
            /\ \A v \in users' : v.username = u.username => v = u ]_vars

\* C18 witness: with both usernames registered, and after an inspection was
\* created and deleted, a registration of one of them under another password
\* was made
C18_Witness ==
    /\ Cardinality(users) = 2
    /\ inspections_id_seq > 0
    /\ inspections = {}
    /\ resp.op = "register"
    /\ \E u \in users : /\ u.username = resp.username
                        /\ ~verify_password(resp.password, u.password_hash)


-----------------------------------------------------------------------------
(* Database exceptions.  Every call on the database can raise: the lookup  *)
(* of the row by the endpoint, engine.connect(), conn.execute(),           *)
(* conn.commit() and the get_inspection that reads the row back after the  *)
(* commit.  The except blocks of db_helper.py roll back and raise again,   *)
(* and the except block of the endpoint answers 500 with str(e).           *)

\* str(e) of the exception of a database call
db_message(fault) ==
    CASE fault = "lookup" -> "server closed the connection unexpectedly"
      [] fault = "connect" -> "could not connect to server"
      [] fault = "execute" -> "canceling statement due to statement timeout"
      [] fault = "execute_row" -> "new row violates check constraint"
      [] fault = "commit" -> "could not commit transaction"
      [] fault = "readback" -> "server closed the connection unexpectedly"

\* the calls of create_inspection that can raise; execute_row: the INSERT
\* fails after the serial column has drawn the id of the row
CreateFaults == {"connect", "execute", "execute_row", "commit", "readback"}
\* the calls of update_inspection_endpoint and update_inspection that can raise
UpdateFaults == {"lookup", "connect", "execute", "commit", "readback"}
\* the calls of delete_inspection_endpoint and delete_inspection that can raise
DeleteFaults == {"lookup", "connect", "execute", "commit"}

\* create_inspection when the call named by fault raises: before the commit
\* has returned, conn.rollback() undoes the INSERT, though not the id drawn
\* from the sequence; in the read back the INSERT is committed and
\* conn.rollback() on the closed connection undoes nothing
create_inspection_raising(T, seq, inspection_data, fault) ==
    LET made == create_inspection(T, seq, inspection_data) IN
    [inspections |-> IF fault = "readback" THEN made.inspections ELSE T,
     seq |-> IF fault \in {"connect", "execute"} THEN seq ELSE made.seq,
     error |-> db_message(fault)]

\* update_inspection when the call named by fault raises
update_inspection_raising(T, inspection_id, inspection_data, fault) ==
    LET done == update_inspection(T, inspection_id, inspection_data) IN
    [inspections |-> IF fault = "readback" THEN done.inspections ELSE T,
     error |-> db_message(fault)]

\* delete_inspection when the call named by fault raises
delete_inspection_raising(T, inspection_id, fault) ==
    [inspections |-> T, error |-> db_message(fault)]

\* create_inspection_endpoint: the handler body when a database call raises
create_body_raising(T, seq, record, fault) ==
    LET made == create_inspection_raising(T, seq, inspection_data_of(record), fault) IN
    [out |-> Throw(made.error), inspections |-> made.inspections, seq |-> made.seq]

\* update_inspection_endpoint: the handler body when a database call raises
update_body_raising(T, inspection_id, record, fault) ==
    IF fault = "lookup"
    THEN [out |-> Throw(db_message(fault)), inspections |-> T]
    ELSE LET done == update_inspection_raising(T, inspection_id,
                                               inspection_data_of(record), fault) IN
         [out |-> Throw(done.error), inspections |-> done.inspections]

\* delete_inspection_endpoint: the handler body when a database call raises
delete_body_raising(T, inspection_id, fault) ==
    IF fault = "lookup"
    THEN [out |-> Throw(db_message(fault)), inspections |-> T]
    ELSE LET done == delete_inspection_raising(T, inspection_id, fault) IN
         [out |-> Throw(done.error), inspections |-> done.inspections]

\* the token is accepted and the body parses, so that the handler body runs
BodyRuns(token, body) ==
    (get_current_user(token, users, now).ok /\ InspectionRecord_valid(body)) = TRUE

\* POST /inspection by a logged-in user with a valid record, during which a
\* database call raises
CreateInspectionRaising(token, body, limit, fault) ==
    /\ BodyRuns(token, body)
    /\ inspections_id_seq < limit
    /\ LET r == create_body_raising(inspections, inspections_id_seq,
                                    InspectionRecord(body), fault) IN
       /\ resp' = with(Exchange("create", token, 0, body, TRUE, try_except(r.out)),
                       "fault", fault)
       /\ inspections' = r.inspections
       /\ inspections_id_seq' = r.seq
    /\ UNCHANGED <<users, users_id_seq, now, issued>>
    /\ UNCHANGED <<calls, migration, dash_vars>>

\* PUT /inspection/{inspection_id} by a logged-in user with a valid record,
\* during which a database call raises; the calls after the lookup are
\* reached when the row exists
UpdateInspectionRaising(token, inspection_id, body, fault) ==
    /\ BodyRuns(token, body)
    /\ fault # "lookup" => get_inspection(inspections, inspection_id) # None
    /\ LET r == update_body_raising(inspections, inspection_id,
                                    InspectionRecord(body), fault) IN
       /\ resp' = with(Exchange("update", token, inspection_id, body, TRUE,
                                try_except(r.out)),
                       "fault", fault)
       /\ inspections' = r.inspections
    /\ UNCHANGED <<users, users_id_seq, inspections_id_seq, now, issued>>
    /\ UNCHANGED <<calls, migration, dash_vars>>

\* DELETE /inspection/{inspection_id} by a logged-in user, during which a
\* database call raises
DeleteInspectionRaising(token, inspection_id, fault) ==
    /\ BodyRuns(token, BaseBody)
    /\ fault # "lookup" => get_inspection(inspections, inspection_id) # None
    /\ LET r == delete_body_raising(inspections, inspection_id, fault) IN
       /\ resp' = with(Exchange("delete", token, inspection_id, EmptyBody, TRUE,
                                try_except(r.out)),
                       "fault", fault)
       /\ inspections' = r.inspections
    /\ UNCHANGED <<users, users_id_seq, inspections_id_seq, now, issued>>
    /\ UNCHANGED <<calls, migration, dash_vars>>

\* the endpoints that write, with and without database exceptions
NextRaising ==
    \/ Login("admin", "admin")
    \/ \E k \in ClientTokens, b \in {BaseBody, AltBody} :
            CreateInspection(k, b, MaxInspections)
    \/ \E k \in ClientTokens, i \in Ids : UpdateInspection(k, i, AltBody)
    \/ \E k \in ClientTokens, i \in Ids : DeleteInspection(k, i)
    \/ \E k \in ClientTokens, x \in CreateFaults :
            CreateInspectionRaising(k, BaseBody, MaxInspections, x)
    \/ \E k \in ClientTokens, i \in Ids, x \in UpdateFaults :
            UpdateInspectionRaising(k, i, AltBody, x)
    \/ \E k \in ClientTokens, i \in Ids, x \in DeleteFaults :
            DeleteInspectionRaising(k, i, x)

SpecRaising == Init /\ [][NextRaising]_vars

\* a database call raised during the call of the step
DbException == "fault" \in DOMAIN resp' /\ resp' # resp

\* a database exception is answered with 500 and its message, and one raised
\* before the commit has returned leaves the inspections table as it was
RaisedBeforeCommitRollsBack ==
    [][ DbException =>
            /\ resp'.status = 500
            /\ resp'.detail = db_message(resp'.fault)
            /\ resp'.fault # "readback" => inspections' = inspections ]_vars

\* C19: a database exception during create, update or delete is answered
\* with 500 and the message of the exception, and the inspections table is
\* the same as before the call
C19_DbExceptionRollsBack ==
    [][ DbException =>
            /\ resp'.status = 500
            /\ resp'.detail = db_message(resp'.fault)
            /\ inspections' = inspections ]_vars


-----------------------------------------------------------------------------
(* Concurrent updates.  update_inspection_endpoint takes four steps on the *)
(* database: the lookup of the row through the session, the UPDATE on a    *)
(* connection of its own, the commit, and the read back.  The UPDATE locks *)
(* the row until its transaction commits, so a second UPDATE of the row    *)
(* waits for the commit of the first.                                      *)

\* another request holds the lock of the row: its UPDATE is not committed
RowLocked(c, inspection_id) ==
    \E d \in Callers \ {c} :
        calls[d].pc = "executed" /\ calls[d].id = inspection_id

\* update_inspection_endpoint, an accepted request: db_inspection = get_inspection(...)
UpdateLookup(c, token, inspection_id, body) ==
    /\ calls[c] = Idle
    /\ BodyRuns(token, body)
    /\ IF get_inspection(inspections, inspection_id) = None
       THEN /\ resp' = Exchange("update", token, inspection_id, body, TRUE,
                                try_except(Raise(404, "Inspection not found")))
            /\ UNCHANGED calls
       ELSE /\ calls' = [calls EXCEPT ![c] =
                            [pc |-> "found", token |-> token, id |-> inspection_id,
                             body |-> body, rowcount |-> 0]]
            /\ UNCHANGED resp
    /\ UNCHANGED <<users, users_id_seq, inspections, inspections_id_seq, now, issued>>
    /\ UNCHANGED <<migration, dash_vars>>

\* update_inspection: conn.execute(UPDATE inspections SET ... WHERE id = :id);
\* rowcount: the rows that the statement matched
UpdateExecute(c) ==
    /\ calls[c].pc = "found"
    /\ ~RowLocked(c, calls[c].id)
    /\ calls' = [calls EXCEPT ![c].pc = "executed",
                              ![c].rowcount =
                                  IF get_inspection(inspections, calls[c].id) = None
                                  THEN 0 ELSE 1]
    /\ UNCHANGED <<users, users_id_seq, inspections, inspections_id_seq, now, issued, resp>>
    /\ UNCHANGED <<migration, dash_vars>>

\* update_inspection: conn.commit()
UpdateCommit(c) ==
    /\ calls[c].pc = "executed"
    /\ inspections' = update_inspection(inspections, calls[c].id,
                          inspection_data_of(InspectionRecord(calls[c].body))).inspections
    /\ calls' = [calls EXCEPT ![c].pc = "committed"]
    /\ UNCHANGED <<users, users_id_seq, inspections_id_seq, now, issued, resp>>
    /\ UNCHANGED <<migration, dash_vars>>

\* update_inspection: return get_inspection(db, inspection_id), and the
\* answer of the endpoint built from db_inspection.id
UpdateReturn(c) ==
    LET db_inspection == get_inspection(inspections, calls[c].id)
        out == IF db_inspection = None
               THEN Throw("'NoneType' object has no attribute 'id'")
               ELSE Return([status |-> "updated", id |-> db_inspection.id,
                            record |-> jsonable(InspectionRecord(calls[c].body))])
    IN
    /\ calls[c].pc = "committed"
    /\ resp' = Exchange("update", calls[c].token, calls[c].id, calls[c].body, TRUE,
                        try_except(out))
    /\ calls' = [calls EXCEPT ![c] = Idle]
    /\ UNCHANGED <<users, users_id_seq, inspections, inspections_id_seq, now, issued>>
    /\ UNCHANGED <<migration, dash_vars>>

\* the records of the concurrent updates: they differ in every field
ConcurrentBodies == {BaseBody, AltBody}

\* rows are created and updated by requests that run at the same time
NextConcurrent ==
    \/ Login("admin", "admin")
    \/ \E k \in ClientTokens : CreateInspection(k, BaseBody, MaxGateInspections)
    \/ \E c \in Callers, k \in ClientTokens, i \in GateIds, b \in ConcurrentBodies :
            UpdateLookup(c, k, i, b)
    \/ \E c \in Callers : UpdateExecute(c)
    \/ \E c \in Callers : UpdateCommit(c)
    \/ \E c \in Callers : UpdateReturn(c)

SpecConcurrent == Init /\ [][NextConcurrent]_vars

\* the columns of a row that holds the record of this body
StoredRecord(body) == column_values(inspection_data_of(InspectionRecord(body)))

\* C17: of updates of one id that run at the same time each is answered with
\* 200, each commit leaves the row holding the record of the committing
\* update in every field, no other step changes the row, and so the row
\* never mixes fields of two records
C17_LastCommitWins ==
    /\ [](\A r \in inspections : \E b \in ConcurrentBodies : r.data = StoredRecord(b))
    /\ [][ /\ \A c \in Callers :
                /\ (calls[c].pc = "executed" /\ calls'[c].pc = "committed") =>
                      /\ get_inspection(inspections', calls[c].id) # None
                      /\ get_inspection(inspections', calls[c].id).data
                            = StoredRecord(calls[c].body)
                      /\ \A r \in inspections : r.id # calls[c].id => r \in inspections'
                /\ (calls[c].pc = "committed" /\ calls'[c] = Idle) =>
                      /\ resp'.op = "update"
                      /\ resp'.status = 200
                      /\ resp'.body.id = calls[c].id
           /\ (/\ \A c \in Callers : ~(calls[c].pc = "executed" /\ calls'[c].pc = "committed")
               /\ inspections_id_seq' = inspections_id_seq) =>
                    inspections' = inspections ]_vars

\* C17 witness: two updates of one row with different records ran at the
\* same time, both have committed and neither has returned
C17_Witness ==
    /\ calls["c1"].pc = "committed"
    /\ calls["c2"].pc = "committed"
    /\ calls["c1"].id = calls["c2"].id
    /\ calls["c1"].body # calls["c2"].body


-----------------------------------------------------------------------------
(* dashboard/app.py: the path and the token store in the browser.  A path  *)
(* is the sequence of the pieces of its text, its first piece being the    *)
(* longest route it starts with: "/edit-inspection/1" is                   *)
(* <<"/edit-inspection", "/", "1">>.                                       *)

LoginPath == <<"/login">>
DashboardPath == <<"/dashboard">>

\* String.prototype.startsWith / str.startswith
startsWith(text, prefix) ==
    /\ Len(text) >= Len(prefix)
    /\ SubSeq(text, 1, Len(prefix)) = prefix

\* the protectedRoutes of the clientside callback
protectedRoutes ==
    { <<"/dashboard">>, <<"/add-inspection">>, <<"/analytics">>, <<"/edit-inspection">> }

\* isProtected that compares the whole path with the routes
isProtected_whole_path(path) == path \in protectedRoutes

\* protectedRoutes.some(route => pathname.startsWith(route))
isProtected(path) == \E route \in protectedRoutes : startsWith(path, route)

\* the clientside callback of route protection: function(pathname, token);
\* !token holds of the null of an empty store, not of the object login stores
route_protection(path, token) ==
    IF isProtected(path) /\ token = None THEN LoginPath ELSE path

\* display_page(pathname): the layout put into 'page-content'
display_page(path) ==
    IF path = LoginPath \/ path = <<"/">> THEN "login_layout"
    ELSE IF path = <<"/register">> THEN "register_layout"
    ELSE IF path = DashboardPath THEN "dashboard_layout"
    ELSE IF path = <<"/add-inspection">> THEN "dashboard_layout"
    ELSE IF path = <<"/analytics">> THEN "dashboard_layout"
    ELSE IF path = <<"/logout">> THEN "login_layout"
    ELSE IF startsWith(path, <<"/edit-inspection", "/">>) THEN "dashboard_layout"
    ELSE "404 Page Not Found"

\* the paths a user opens, by a link or by typing the address
Paths ==
    { <<"/">>, LoginPath, <<"/register">>, <<"/logout">>, DashboardPath,
      <<"/add-inspection">>, <<"/analytics">>, <<"/edit-inspection", "/", "1">>,
      <<"/dashboard", "-old">>, <<"/delete-inspection", "/", "1">>, <<"/reports">> }

\* what is typed into the login form
FormUsernames == {"", "admin", "ghost"}
FormPasswords == {"", "admin", "letmein"}

\* the tables, the clock, the tokens and the requests of the API
api_vars ==
    <<users, users_id_seq, inspections, inspections_id_seq, now, issued, resp, calls,
      migration>>

\* str(e) of an HTTPException: nothing where Starlette's HTTPException has no
\* __str__ of its own (it passes no arguments to Exception), and
\* "status_code: detail" where it has one; named tells which
str_HTTPException(status_code, detail, named) ==
    IF ~named THEN ""
    ELSE CASE detail = "Username already registered" -> "400: Username already registered"
           [] detail = "Invalid credentials" -> "401: Invalid credentials"
           [] detail = "Inspection not found" -> "404: Inspection not found"
           [] detail = "Failed to delete inspection" -> "500: Failed to delete inspection"
           [] OTHER -> "500: Internal Server Error"

\* response.json()["detail"] of an answer that is not 200: the detail of an
\* HTTPException raised outside the try block of the handler, and inside it
\* the str(e) that the except block puts into its HTTPException(500)
json_detail(raised, inside, named) ==
    IF inside /\ raised.status # 0
    THEN str_HTTPException(raised.status, raised.detail, named)
    ELSE raised.detail

\* the text of an element: its pieces in a row, an empty piece adding nothing
Text(pieces) == SelectSeq(pieces, LAMBDA piece : piece # "")

\* str(e) of the exception that requests raises when the API does not answer
ConnectionError == "connection refused"

\* the user opens a path: dcc.Location sets 'url'.pathname, and display_page
\* replaces the page with the layout of the path
Navigate(path) ==
    /\ path # pathname
    /\ pathname' = path
    /\ pending' = TRUE
    /\ editing' = None
    /\ fired' = Fired("display_page", FALSE, 0)
    /\ UNCHANGED <<api_vars, token_store, notice, modal, running, listing>>

\* login_user: a click on the login button of the login page; reachable:
\* requests.post gets an answer from the API
login_user(username, password, reachable, named) ==
    LET raised == login_body(users, username, password, now)
        out == try_except(raised)
        handed == IF out.status = 200 THEN issued \cup {out.body.access_token} ELSE issued
    IN
    /\ display_page(pathname) = "login_layout"
    /\ IF username = "" \/ password = "" THEN
            /\ notice' = Text(<<"Please enter both username and password">>)
            /\ fired' = Fired("login_user", FALSE, 0)
            /\ UNCHANGED <<api_vars, pathname, token_store, pending, editing>>
       ELSE IF ~reachable THEN
            /\ notice' = Text(<<"An error occurred: ", ConnectionError>>)
            /\ fired' = Fired("login_user", TRUE, 0)
            /\ UNCHANGED <<api_vars, pathname, token_store, pending, editing>>
       ELSE
            /\ Cardinality(handed) <= MaxTokens
            /\ resp' = AuthExchange("login", username, password, out)
            /\ issued' = handed
            /\ fired' = Fired("login_user", TRUE, out.status)
            /\ IF out.status = 200
               THEN /\ notice' = Text(<<"">>)
                    /\ pathname' = DashboardPath
                    /\ token_store' = out.body
                    /\ pending' = TRUE
                    /\ editing' = None
               ELSE /\ notice' = Text(<<json_detail(raised, TRUE, named)>>)
                    /\ UNCHANGED <<pathname, token_store, pending, editing>>
            /\ UNCHANGED <<users, users_id_seq, inspections, inspections_id_seq, now, calls,
                         migration>>
    /\ UNCHANGED <<modal, running, listing>>

\* logout that sets the path and leaves the token in 'token-store'
logout_keeping_token ==
    /\ display_page(pathname) = "dashboard_layout"
    /\ pathname' = LoginPath
    /\ pending' = TRUE
    /\ editing' = None
    /\ fired' = Fired("logout", FALSE, 0)
    /\ UNCHANGED <<api_vars, token_store, notice, modal, running, listing>>

\* logout: a click on the logout button of the dashboard layout
logout ==
    /\ display_page(pathname) = "dashboard_layout"
    /\ token_store' = None
    /\ pathname' = LoginPath
    /\ pending' = TRUE
    /\ editing' = None
    /\ fired' = Fired("logout", FALSE, 0)
    /\ UNCHANGED <<api_vars, notice, modal, running, listing>>

\* the clientside callback of route protection runs on a change of
\* 'url'.pathname or of 'token-store'.data
RouteProtection ==
    /\ pending
    /\ pathname' = route_protection(pathname, token_store)
    /\ pending' = FALSE
    /\ editing' = IF pathname' = pathname THEN editing ELSE None
    /\ fired' = Fired("route_protection", FALSE, 0)
    /\ UNCHANGED <<api_vars, token_store, notice, modal, running, listing>>

\* the dashboard is opened at some path with an empty token store; whether
\* the load of the page counts as a change of 'url'.pathname is left open
InitDash ==
    /\ users = {[id |-> 1, username |-> "admin",
                 password_hash |-> pwd_context_hash("admin", "salt-a")]}
    /\ users_id_seq = 1
    /\ inspections = {}
    /\ inspections_id_seq = 0
    /\ now = 0
    /\ issued = {}
    /\ resp = NoExchange
    /\ calls = [c \in Callers |-> Idle]
    /\ migration = NotMigrating
    /\ pathname \in Paths
    /\ token_store = None
    /\ pending \in BOOLEAN
    /\ notice = <<>>
    /\ InitForms

NextDash ==
    \/ \E path \in Paths : Navigate(path)
    \/ \E u \in FormUsernames, p \in FormPasswords, reachable \in BOOLEAN,
          named \in BOOLEAN :
            login_user(u, p, reachable, named)
    \/ logout
    \/ RouteProtection

SpecDash == InitDash /\ [][NextDash]_vars

\* the step is a run of the route protection callback
ProtectionRuns == pending /\ ~pending'

\* the path starts with one of the four protected routes
ProtectedPath(path) ==
    Head(path) \in {"/dashboard", "/add-inspection", "/analytics", "/edit-inspection"}

\* C20: a change of the path or of the token store makes the route protection
\* callback due; when it runs on a path that starts with /dashboard,
\* /add-inspection, /analytics or /edit-inspection with an empty token store
\* it sets the path to /login, and with a token in the store it leaves the
\* path as it is
C20_RouteProtection ==
    [][ /\ ProtectionRuns =>
              /\ (ProtectedPath(pathname) /\ token_store = None) =>
                    /\ pathname' = LoginPath
                    /\ display_page(pathname') = "login_layout"
              /\ token_store # None => pathname' = pathname
              /\ token_store' = token_store
        /\ (~ProtectionRuns /\ (pathname' # pathname \/ token_store' # token_store)) =>
              pending' ]_vars

\* C20 witness: after a login and a logout the edit page of an inspection
\* was opened, and the callback is due with the token store empty
C20_Witness ==
    /\ pending
    /\ token_store = None
    /\ issued # {}
    /\ pathname = <<"/edit-inspection", "/", "1">>


\* the step is a run of the named callback
Runs(callback) == fired'.callback = callback

\* the login callback got the answer 200 in this step
LoginSucceeds == Runs("login_user") /\ fired'.status = 200

\* a login with both fields filled in that got no 200: another answer, or no
\* answer at all
LoginFails ==
    /\ Runs("login_user")
    /\ fired'.sent
    /\ fired'.status # 200

\* the login callback ran with the username or the password empty
LoginIncomplete == Runs("login_user") /\ ~fired'.sent

\* a successful login stores the token of the answer and sets the path to
\* /dashboard in the same step; a login without username or password and a
\* login that got no answer change neither and show an error text
LoginStoresTokenAndMoves ==
    [][ /\ LoginSucceeds =>
              /\ token_store' = resp'.body
              /\ token_store'.access_token \in issued'
              /\ pathname' = DashboardPath
        /\ (LoginFails \/ LoginIncomplete) =>
              /\ pathname' = pathname
              /\ token_store' = token_store
        /\ (LoginIncomplete \/ (LoginFails /\ fired'.status = 0)) => notice' # <<>> ]_vars

\* C23: a successful login from the login page stores the token and moves the
\* path to /dashboard in the same step; a failed login, and a login attempt
\* with an empty username or password, leaves the path and the token store
\* unchanged and shows an error text
C23_LoginStateMachine ==
    [][ /\ LoginSucceeds =>
              /\ token_store' = resp'.body
              /\ pathname' = DashboardPath
        /\ (LoginFails \/ LoginIncomplete) =>
              /\ pathname' = pathname
              /\ token_store' = token_store
              /\ notice' # <<>> ]_vars


-----------------------------------------------------------------------------
(* migrate_data.py and migrate_from_sheets of db_helper.py: the users of a *)
(* sheet. get_all_records gives every row the keys of the header row; a    *)
(* cell is text, or a number where the text reads as one.                   *)

\* not value: None, the empty text, zero and the empty list are false
falsy(value) ==
    value = None \/ value = Str("") \/ value = Num(0) \/ value = List(<< >>)

\* user.get(key)
dict_get(user, key) == IF key \in DOMAIN user THEN user[key] ELSE None

\* one pass of the loop over users_data that overwrites the hash of a user
\* that exists
migrate_user_upsert(U, seq, user, aborted) ==
    IF "username" \notin DOMAIN user \/ falsy(user["username"])
    THEN [users |-> U, seq |-> seq, aborted |-> aborted]
    ELSE IF aborted \/ user["username"].t # "str"
    THEN [users |-> U, seq |-> seq, aborted |-> TRUE]
    ELSE IF get_user(U, user["username"].v) # None
    THEN [users |-> {IF u.username = user["username"].v
                     THEN [u EXCEPT !.password_hash = dict_get(user, "password_hash")]
                     ELSE u : u \in U},
          seq |-> seq, aborted |-> FALSE]
    ELSE [users |-> U \cup {[id |-> seq + 1, username |-> user["username"].v,
                             password_hash |-> dict_get(user, "password_hash")]},
          seq |-> seq + 1, aborted |-> FALSE]

\* one pass of the loop over users_data. aborted: a statement of the
\* connection has failed and nothing has rolled it back, so PostgreSQL
\* refuses the statements that follow. A username that is a number fails the
\* SELECT (character varying = integer); the except block prints and goes on
migrate_user(U, seq, user, aborted) ==
    IF "username" \notin DOMAIN user \/ falsy(user["username"])
    THEN [users |-> U, seq |-> seq, aborted |-> aborted]
    ELSE IF aborted \/ user["username"].t # "str"
    THEN [users |-> U, seq |-> seq, aborted |-> TRUE]
    ELSE IF get_user(U, user["username"].v) # None
    THEN [users |-> U, seq |-> seq, aborted |-> FALSE]
    ELSE [users |-> U \cup {[id |-> seq + 1, username |-> user["username"].v,
                             password_hash |-> dict_get(user, "password_hash")]},
          seq |-> seq + 1, aborted |-> FALSE]

RECURSIVE migrate_users(_, _, _, _)
\* the loop over users_data, on one connection
migrate_users(U, seq, users_data, aborted) ==
    IF users_data = <<>> THEN [users |-> U, seq |-> seq]
    ELSE LET r == migrate_user(U, seq, Head(users_data), aborted) IN
         migrate_users(r.users, r.seq, Tail(users_data), r.aborted)

\* migrate_from_sheets(inspections_data, users_data) with no inspections
migrate_from_sheets(U, seq, users_data) == migrate_users(U, seq, users_data, FALSE)

\* the cells of the sheet of users
UsernameCells == {Str(""), Str("admin"), Str("bob"), Num(7)}
HashCells == {pwd_context_hash("admin", "salt-s"), pwd_context_hash("bob", "salt-s")}
CellsOf(key) == IF key = "username" THEN UsernameCells ELSE HashCells

\* the sheets: a header row and up to MaxSheetUsers rows under it
Sheets ==
    UNION { UNION { [1..n -> [header -> UNION {CellsOf(k) : k \in header}]]
                    : n \in 0..MaxSheetUsers }
            : header \in SUBSET {"username", "password_hash"} }

\* the rows of the sheet have the cells of their columns
SheetRowsTyped(sheet) ==
    \A i \in DOMAIN sheet : \A k \in DOMAIN sheet[i] : sheet[i][k] \in CellsOf(k)

\* run_migration is started on a database that is empty or has the default
\* user
InitMigration ==
    /\ users \in {{}, {[id |-> 1, username |-> "admin",
                        password_hash |-> pwd_context_hash("admin", "salt-a")]}}
    /\ users_id_seq = Cardinality(users)
    /\ inspections = {}
    /\ inspections_id_seq = 0
    /\ now = 0
    /\ issued = {}
    /\ resp = NoExchange
    /\ calls = [c \in Callers |-> Idle]
    /\ \E sheet \in Sheets :
            /\ SheetRowsTyped(sheet)
            /\ migration = [sheet |-> sheet, at |-> 1, run |-> 1, first |-> {}]
    /\ pathname = <<"/">>
    /\ token_store = None
    /\ pending = FALSE
    /\ notice = <<>>
    /\ InitForms

\* run_migration: the next user of the sheet is handed to migrate_from_sheets
MigrateUser ==
    LET user == migration.sheet[migration.at]
        r == migrate_from_sheets(users, users_id_seq, <<user>>)
    IN
    /\ migration.run \in {1, 2}
    /\ migration.at <= Len(migration.sheet)
    /\ users' = r.users
    /\ users_id_seq' = r.seq
    /\ migration' = [migration EXCEPT !.at = @ + 1]
    /\ UNCHANGED <<inspections, inspections_id_seq, now, issued, resp, calls, dash_vars>>

\* run_migration has handed over every user of the sheet; the script is run
\* a second time on the same sheet
MigrationEnds ==
    /\ migration.run \in {1, 2}
    /\ migration.at > Len(migration.sheet)
    /\ migration' = [migration EXCEPT !.at = 1, !.run = @ + 1,
                                      !.first = IF migration.run = 1 THEN users ELSE @]
    /\ UNCHANGED <<users, users_id_seq, inspections, inspections_id_seq, now, issued,
                   resp, calls, dash_vars>>

NextMigration == MigrateUser \/ MigrationEnds

SpecMigration == InitMigration /\ [][NextMigration]_vars

\* the user of the sheet that the step hands over
SheetUser == migration.sheet[migration.at]

\* the step hands a user of the sheet to migrate_from_sheets
Migrates == migration'.at = migration.at + 1

\* C26: a user of the sheet whose username is in the users table is not
\* inserted again and the row of that username keeps its password hash; a
\* user of the sheet with no username is skipped; and after the second run
\* of the migration the users table is the table that the first run left
C26_UserMigrationIdempotent ==
    /\ [](migration.run = 3 => users = migration.first)
    /\ [][ Migrates =>
              /\ \A u \in users : u \in users'
              /\ \A u, v \in users' : u.username = v.username => u = v
              /\ ("username" \notin DOMAIN SheetUser \/ falsy(SheetUser["username"])) =>
                    users' = users
              /\ ("username" \in DOMAIN SheetUser
                    /\ \E u \in users : Str(u.username) = SheetUser["username"]) =>
                    users' = users ]_vars

\* C26 witness: the sheet has admin with another hash than the table and a
\* row with an empty username; both runs are over and bob was inserted
C26_Witness ==
    /\ migration.run = 3
    /\ \E i \in DOMAIN migration.sheet :
            /\ DOMAIN migration.sheet[i] = {"username", "password_hash"}
            /\ migration.sheet[i]["username"] = Str("admin")
            /\ \E u \in users : u.username = "admin"
                                  /\ u.password_hash # migration.sheet[i]["password_hash"]
    /\ \E u \in users : u.username = "bob"


-----------------------------------------------------------------------------
(* register, served for several callers at the same time: the lookup of    *)
(* the username and the INSERT of create_user are two statements, and the  *)
(* statements of another request may run between them.                      *)

\* register: user = get_user(db, form_data.username)
RegisterLookup(c, username, password) ==
    LET out == try_except(Raise(400, "Username already registered")) IN
    /\ calls[c] = Idle
    /\ IF get_user(users, username) # None
       THEN /\ resp' = AuthExchange("register", username, password, out)
            /\ calls' = [calls EXCEPT ![c] =
                            [pc |-> "answered", username |-> username,
                             password |-> password, passed |-> FALSE,
                             status |-> out.status]]
       ELSE /\ calls' = [calls EXCEPT ![c] =
                            [pc |-> "looked up", username |-> username,
                             password |-> password, passed |-> TRUE, status |-> 0]]
            /\ UNCHANGED resp
    /\ UNCHANGED <<users, users_id_seq, inspections, inspections_id_seq, now, issued>>
    /\ UNCHANGED <<migration, dash_vars>>

\* register: create_user(db, form_data.username, pwd_context.hash(...)); the
\* INSERT is sent and committed by db.commit()
RegisterInsert(c, salt) ==
    LET made == create_user(users, users_id_seq, calls[c].username,
                            pwd_context_hash(calls[c].password, salt))
        out == try_except(IF made.ok THEN Return([msg |-> "User registered successfully."])
                          ELSE Throw(made.error))
    IN
    /\ calls[c].pc = "looked up"
    /\ users' = made.users
    /\ users_id_seq' = made.seq
    /\ resp' = AuthExchange("register", calls[c].username, calls[c].password, out)
    /\ calls' = [calls EXCEPT ![c].pc = "answered", ![c].status = out.status]
    /\ UNCHANGED <<inspections, inspections_id_seq, now, issued>>
    /\ UNCHANGED <<migration, dash_vars>>

\* the caller has read the answer
RegisterAnswered(c) ==
    /\ calls[c].pc = "answered"
    /\ calls' = [calls EXCEPT ![c] = Idle]
    /\ UNCHANGED <<users, users_id_seq, inspections, inspections_id_seq, now, issued, resp>>
    /\ UNCHANGED <<migration, dash_vars>>

NextRegisters ==
    \/ \E c \in Callers, u \in Usernames, p \in Passwords : RegisterLookup(c, u, p)
    \/ \E c \in Callers, s \in Salts : RegisterInsert(c, s)
    \/ \E c \in Callers : RegisterAnswered(c)

SpecRegisters == InitAuth /\ [][NextRegisters]_vars

\* both callers have their answer to a register of the same username
BothAnswered ==
    /\ \A c \in Callers : calls[c].pc = "answered"
    /\ calls["c1"].username = calls["c2"].username

\* C27: the users table has at most one row of a username, also when two
\* register calls of the same new username have both looked the username up
\* before either has inserted, and at most one of the two is answered 200
C27_ConcurrentRegister ==
    /\ \A u, v \in users : u.username = v.username => u = v
    /\ BothAnswered => \E c \in Callers : calls[c].status # 200

\* C27 witness: both calls found the username new; c1 was answered 200 and
\* c2, whose INSERT came second, 500
C27_Witness ==
    /\ BothAnswered
    /\ \A c \in Callers : calls[c].passed
    /\ calls["c1"].status = 200
    /\ calls["c2"].status = 500
    /\ Cardinality({u \in users : u.username = calls["c1"].username}) = 1


-----------------------------------------------------------------------------
(* Updates served at the same time as deletes *)

\* DELETE /inspection/{id} while updates are being served: the DELETE waits
\* for the lock that an UPDATE of the row holds until its commit
DeleteDuringUpdates(token, inspection_id) ==
    /\ ~\E c \in Callers :
            /\ calls[c].pc = "executed"
            /\ calls[c].id = inspection_id
            /\ calls[c].rowcount = 1
    /\ DeleteInspection(token, inspection_id)

\* rows are created, updated and deleted by requests that run at the same time
NextUpdateDelete ==
    \/ Login("admin", "admin")
    \/ \E k \in ClientTokens : CreateInspection(k, BaseBody, MaxInspections)
    \/ \E k \in ClientTokens, i \in Ids : DeleteDuringUpdates(k, i)
    \/ \E c \in Callers, k \in ClientTokens, i \in Ids : UpdateLookup(c, k, i, AltBody)
    \/ \E c \in Callers : UpdateExecute(c)
    \/ \E c \in Callers : UpdateCommit(c)
    \/ \E c \in Callers : UpdateReturn(c)

SpecUpdateDelete == Init /\ [][NextUpdateDelete]_vars

\* the ids of the rows of the inspections table
InspectionIds == {r.id : r \in inspections}

\* C28: the set of inspection ids changes only in a create that is answered
\* 200, by the id of the answer, and in a delete that is answered 200, by the
\* id of the request; no step of an update changes it, and an update whose
\* UPDATE statement matched no row, the row having been deleted after the
\* existence check, is not answered with status "updated"
C28_UpdateNeverCreates ==
    [][ /\ InspectionIds' # InspectionIds =>
              /\ resp' # resp
              /\ resp'.status = 200
              /\ \/ /\ resp'.op = "create"
                    /\ resp'.body.id \notin InspectionIds
                    /\ InspectionIds' = InspectionIds \cup {resp'.body.id}
                 \/ /\ resp'.op = "delete"
                    /\ InspectionIds' = InspectionIds \ {resp'.id}
        /\ \A c \in Callers :
              /\ calls'[c] # calls[c] => InspectionIds' = InspectionIds
              /\ (calls[c].pc = "committed" /\ calls'[c] = Idle /\ calls[c].rowcount = 0) =>
                    /\ resp'.op = "update"
                    /\ resp'.id = calls[c].id
                    /\ resp'.status = 500
                    /\ resp'.body = None ]_vars

\* C28 witness: an update found its row, a delete of the id was answered 200,
\* and the UPDATE statement, committed since, matched no row
C28_Witness ==
    \E c \in Callers :
        /\ calls[c].pc = "committed"
        /\ calls[c].rowcount = 0
        /\ resp.op = "delete"
        /\ resp.status = 200
        /\ resp.id = calls[c].id
        /\ inspections # {}


-----------------------------------------------------------------------------
(* dashboard/app.py: the callbacks of the forms. A callback that calls the *)
(* API gets the answer that the endpoint gives in the state of the tables. *)

\* the answer of a request; inside: it comes from the try block of the handler
Answer(raised, inside) ==
    [raised |-> raised, inside |-> inside,
     out |-> IF inside THEN try_except(raised) ELSE raised]

\* requests.post(f"{API_BASE_URL}/inspection", json=form_values, headers=headers)
post_inspection(token, body) ==
    LET current_user == get_current_user(token, users, now) IN
    IF ~current_user.ok
    THEN [answer |-> Answer(Raise(current_user.status, current_user.detail), FALSE),
          inspections |-> inspections, seq |-> inspections_id_seq]
    ELSE IF ~InspectionRecord_valid(body)
    THEN [answer |-> Answer(Raise(422, "value is not a valid InspectionRecord"), FALSE),
          inspections |-> inspections, seq |-> inspections_id_seq]
    ELSE LET r == create_body(inspections, inspections_id_seq, InspectionRecord(body)) IN
         [answer |-> Answer(r.out, TRUE), inspections |-> r.inspections, seq |-> r.seq]

\* requests.get(f"{API_BASE_URL}/inspections", headers=headers)
get_inspections(token) ==
    LET current_user == get_current_user(token, users, now) IN
    IF ~current_user.ok
    THEN Answer(Raise(current_user.status, current_user.detail), FALSE)
    ELSE Answer(list_body(inspections), TRUE)

\* requests.put(f"{API_BASE_URL}/inspection/{row_number}", json=form_values, ...)
put_inspection(token, inspection_id, body) ==
    LET current_user == get_current_user(token, users, now) IN
    IF ~current_user.ok
    THEN [answer |-> Answer(Raise(current_user.status, current_user.detail), FALSE),
          inspections |-> inspections]
    ELSE IF ~InspectionRecord_valid(body)
    THEN [answer |-> Answer(Raise(422, "value is not a valid InspectionRecord"), FALSE),
          inspections |-> inspections]
    ELSE LET r == update_body(inspections, inspection_id, InspectionRecord(body)) IN
         [answer |-> Answer(r.out, TRUE), inspections |-> r.inspections]

\* requests.delete(f"{API_BASE_URL}/inspection/{row_number}", headers=headers)
delete_request(token, inspection_id) ==
    LET current_user == get_current_user(token, users, now) IN
    IF ~current_user.ok
    THEN [answer |-> Answer(Raise(current_user.status, current_user.detail), FALSE),
          inspections |-> inspections]
    ELSE LET r == delete_body(inspections, inspection_id) IN
         [answer |-> Answer(r.out, TRUE), inspections |-> r.inspections]

\* requests.post(f"{API_BASE_URL}/register", data=register_data)
post_register(username, password, salt) ==
    LET r == register_body(users, users_id_seq, username, password, salt) IN
    [answer |-> Answer(r.out, TRUE), users |-> r.users, seq |-> r.seq]

\* response.json().get("detail", ...) of an answer
detail_of(answer, named) == json_detail(answer.raised, answer.inside, named)

\* str(n) of a row number, and the int that FastAPI parses from the path
str_int(n) == CASE n = 1 -> "1" [] n = 2 -> "2" [] n = 3 -> "3" [] OTHER -> "4"
int_str(text) == CASE text = "1" -> 1 [] text = "2" -> 2 [] text = "3" -> 3 [] OTHER -> 4

\* required_fields of submit_inspection and of update_inspection
required_fields ==
    << "function_location_id", "building_name", "facility_type", "sprinkler",
       "fire_alarm", "vcp_status", "full_inspection_completed" >>

\* field.replace('_', ' ').title()
title(field) ==
    CASE field = "function_location_id" -> "Function Location Id"
      [] field = "building_name" -> "Building Name"
      [] field = "facility_type" -> "Facility Type"
      [] field = "sprinkler" -> "Sprinkler"
      [] field = "fire_alarm" -> "Fire Alarm"
      [] field = "vcp_status" -> "Vcp Status"
      [] field = "full_inspection_completed" -> "Full Inspection Completed"

\* missing_fields that looks only at the fields up to the first missing one
missing_fields_first(form_values) ==
    LET missing == SelectSeq(required_fields, LAMBDA field : falsy(form_values[field]))
    IN IF missing = << >> THEN missing ELSE << Head(missing) >>

\* [field for field in required_fields if not form_values.get(field)]
missing_fields(form_values) ==
    SelectSeq(required_fields, LAMBDA field : falsy(form_values[field]))

\* the P and the Ul of the missing required fields
missing_list(missing) ==
    << "Please fill in the following required fields:" >>
        \o [i \in 1 .. Len(missing) |-> title(missing[i])]

\* load_inspections_table: what 'inspections-table-container' shows for the
\* data of 'inspection-data-store'
load_inspections_table(data) ==
    IF data = None \/ data.inspections = {}
    THEN << "No inspections found. Add some using the 'Add Inspection' page." >>
    ELSE << "inspections-table" >>


\* the token that the callbacks put into the Authorization header
bearer(token_data) == token_data.access_token

\* the row number of an edit path: pathname.split('/')[-1]
row_number_of(path) == path[Len(path)]

EditPath(path) == startsWith(path, <<"/edit-inspection", "/">>)

\* the values of the fields of a form when its button is clicked
FormValues ==
    { BaseBody,
      with(BaseBody, "building_name", None),
      with(with(BaseBody, "function_location_id", Str("")), "vcp_status", None),
      with(BaseBody, "zone", None) }

\* the paths that are opened while the forms are used
FormPaths ==
    { LoginPath, <<"/register">>, DashboardPath, <<"/add-inspection">>,
      <<"/edit-inspection", "/", "1">>, <<"/edit-inspection", "/", "2">> }

\* a path is opened while no click on Submit is being handled
NavigateForms(path) ==
    /\ running = NotRunning
    /\ Navigate(path)

\* the token store is emptied from another tab of the browser: the store is
\* kept in localStorage, which the tabs share
TokenCleared ==
    /\ token_store # None
    /\ token_store' = None
    /\ pending' = TRUE
    /\ fired' = NotFired
    /\ UNCHANGED <<api_vars, pathname, notice, modal, running, listing, editing>>

\* register_user: a click on the register button of the register page
register_user(username, password, salt, reachable, named) ==
    LET r == post_register(username, password, salt) IN
    /\ display_page(pathname) = "register_layout"
    /\ IF username = "" \/ password = "" THEN
            /\ notice' = Text(<<"Please enter both username and password">>)
            /\ fired' = Fired("register_user", FALSE, 0)
            /\ UNCHANGED <<users, users_id_seq, resp>>
       ELSE IF ~reachable THEN
            /\ notice' = Text(<<"An error occurred: ", ConnectionError>>)
            /\ fired' = Fired("register_user", TRUE, 0)
            /\ UNCHANGED <<users, users_id_seq, resp>>
       ELSE
            /\ resp' = AuthExchange("register", username, password, r.answer.out)
            /\ users' = r.users
            /\ users_id_seq' = r.seq
            /\ fired' = Fired("register_user", TRUE, r.answer.out.status)
            /\ notice' = IF r.answer.out.status = 200
                         THEN Text(<<"Registration successful! You can now login.">>)
                         ELSE Text(<<detail_of(r.answer, named)>>)
    /\ UNCHANGED <<inspections, inspections_id_seq, now, issued, calls, migration>>
    /\ UNCHANGED <<pathname, token_store, pending, modal, running, listing, editing>>

\* get_inspection_data that asks the API also when the token store is empty
get_inspection_data_unchecked(reachable) ==
    LET token == IF token_store = None THEN NoToken ELSE bearer(token_store)
        answer == get_inspections(token)
    IN
    /\ pathname \in {DashboardPath, <<"/analytics">>}
    /\ IF ~reachable THEN
            /\ listing' = [inspections |-> {}]
            /\ fired' = Fired("get_inspection_data", TRUE, 0)
            /\ UNCHANGED resp
       ELSE
            /\ resp' = Exchange("list", token, 0, EmptyBody, answer.inside, answer.out)
            /\ fired' = Fired("get_inspection_data", TRUE, answer.out.status)
            /\ listing' = IF answer.out.status = 200 THEN answer.out.body
                          ELSE [inspections |-> {}]
    /\ notice' = load_inspections_table(listing')
    /\ UNCHANGED <<users, users_id_seq, inspections, inspections_id_seq, now, issued,
                   calls, migration>>
    /\ UNCHANGED <<pathname, token_store, pending, modal, running, editing>>

\* get_inspection_data, run on a change of the path or of the token store,
\* and load_inspections_table, run on the data it stores
get_inspection_data(reachable) ==
    LET answer == get_inspections(bearer(token_store)) IN
    /\ pathname \in {DashboardPath, <<"/analytics">>}
    /\ IF token_store = None THEN
            /\ listing' = [inspections |-> {}]
            /\ fired' = Fired("get_inspection_data", FALSE, 0)
            /\ UNCHANGED resp
       ELSE IF ~reachable THEN
            /\ listing' = [inspections |-> {}]
            /\ fired' = Fired("get_inspection_data", TRUE, 0)
            /\ UNCHANGED resp
       ELSE
            /\ resp' = Exchange("list", bearer(token_store), 0, EmptyBody,
                                answer.inside, answer.out)
            /\ fired' = Fired("get_inspection_data", TRUE, answer.out.status)
            /\ listing' = IF answer.out.status = 200 THEN answer.out.body
                          ELSE [inspections |-> {}]
    /\ notice' = load_inspections_table(listing')
    /\ UNCHANGED <<users, users_id_seq, inspections, inspections_id_seq, now, issued,
                   calls, migration>>
    /\ UNCHANGED <<pathname, token_store, pending, modal, running, editing>>

\* a click on the Submit button of the add-inspection form: both callbacks
\* of 'submit-inspection'.n_clicks are sent off with the values of the form
SubmitClick(form_values) ==
    /\ pathname = <<"/add-inspection">>
    /\ running = NotRunning
    /\ ~modal
    /\ running' = [show |-> TRUE, submit |-> "due", token_data |-> token_store,
                   form_values |-> form_values]
    /\ fired' = NotFired
    /\ UNCHANGED <<api_vars, pathname, token_store, pending, notice, modal, listing,
                   editing>>

\* the click is handled when neither callback is left
Handled(left) == IF ~left.show /\ left.submit = "none" THEN NotRunning ELSE left

\* show_modal_on_submit completes
show_modal_on_submit ==
    /\ running.show
    /\ modal' = TRUE
    /\ running' = Handled([running EXCEPT !.show = FALSE])
    /\ fired' = Fired("show_modal_on_submit", FALSE, 0)
    /\ UNCHANGED <<api_vars, pathname, token_store, pending, notice, listing, editing>>

\* submit_inspection up to requests.post: it completes at once without a
\* token or with a required field missing
submit_inspection ==
    LET missing == missing_fields(running.form_values) IN
    /\ running.submit = "due"
    /\ IF running.token_data = None THEN
            /\ notice' = Text(<<"Session expired. Please log in again.">>)
            /\ modal' = FALSE
            /\ fired' = Fired("submit_inspection", FALSE, 0)
            /\ running' = Handled([running EXCEPT !.submit = "none"])
       ELSE IF missing # << >> THEN
            /\ notice' = missing_list(missing)
            /\ modal' = FALSE
            /\ fired' = Fired("submit_inspection", FALSE, 0)
            /\ running' = Handled([running EXCEPT !.submit = "none"])
       ELSE
            /\ running' = [running EXCEPT !.submit = "sent"]
            /\ fired' = NotFired
            /\ UNCHANGED <<notice, modal>>
    /\ UNCHANGED <<api_vars, pathname, token_store, pending, listing, editing>>

\* submit_inspection from requests.post on: the call resolves and the
\* callback completes
SubmitResolves(reachable, named) ==
    LET token == bearer(running.token_data)
        r == post_inspection(token, running.form_values)
    IN
    /\ running.submit = "sent"
    /\ IF ~reachable THEN
            /\ notice' = Text(<<"An error occurred: ", ConnectionError>>)
            /\ fired' = Fired("submit_inspection", TRUE, 0)
            /\ UNCHANGED <<resp, inspections, inspections_id_seq>>
       ELSE
            /\ r.answer.out.status = 200 => inspections_id_seq < MaxGateInspections
            /\ resp' = Exchange("create", token, 0, running.form_values,
                                r.answer.inside, r.answer.out)
            /\ inspections' = r.inspections
            /\ inspections_id_seq' = r.seq
            /\ fired' = Fired("submit_inspection", TRUE, r.answer.out.status)
            /\ notice' = IF r.answer.out.status = 200
                         THEN Text(<<"Inspection submitted successfully!",
                                     "View All Inspections">>)
                         ELSE Text(<<"Error: ", detail_of(r.answer, named)>>)
    /\ modal' = FALSE
    /\ running' = Handled([running EXCEPT !.submit = "none"])
    /\ UNCHANGED <<users, users_id_seq, now, issued, calls, migration>>
    /\ UNCHANGED <<pathname, token_store, pending, listing, editing>>

\* load_edit_form: the inspection of the answer with the row number
find_inspection(data, row_number) ==
    IF \E insp \in data.inspections : str_int(insp.row_number.v) = row_number
    THEN CHOOSE insp \in data.inspections : str_int(insp.row_number.v) = row_number
    ELSE None

\* create_edit_form(inspection): the fields of the edit form, holding the
\* values of the inspection
create_edit_form(inspection) == [f \in FieldNames |-> inspection[f]]

\* load_edit_form, run when display_page has put 'edit-row-number' on the page
load_edit_form(reachable) ==
    LET row_number == row_number_of(pathname)
        answer == get_inspections(bearer(token_store))
    IN
    /\ EditPath(pathname)
    /\ IF row_number = "" \/ token_store = None THEN
            /\ notice' = Text(<<"No inspection selected for editing">>)
            /\ fired' = Fired("load_edit_form", FALSE, 0)
            /\ editing' = None
            /\ UNCHANGED resp
       ELSE IF ~reachable THEN
            /\ notice' = Text(<<"Error loading edit form: ", ConnectionError>>)
            /\ fired' = Fired("load_edit_form", TRUE, 0)
            /\ editing' = None
            /\ UNCHANGED resp
       ELSE
            /\ resp' = Exchange("list", bearer(token_store), 0, EmptyBody,
                                answer.inside, answer.out)
            /\ fired' = Fired("load_edit_form", TRUE, answer.out.status)
            /\ IF answer.out.status # 200 THEN
                    /\ notice' = Text(<<"Failed to fetch inspection data">>)
                    /\ editing' = None
               ELSE IF find_inspection(answer.out.body, row_number) = None THEN
                    /\ notice' = Text(<<"Inspection #", row_number, " not found">>)
                    /\ editing' = None
               ELSE
                    /\ notice' = Text(<<"edit-inspection-form">>)
                    /\ editing' = [row_number |-> row_number,
                                   form_values |->
                                       create_edit_form(
                                           find_inspection(answer.out.body, row_number))]
    /\ UNCHANGED <<users, users_id_seq, inspections, inspections_id_seq, now, issued,
                   calls, migration>>
    /\ UNCHANGED <<pathname, token_store, pending, modal, running, listing>>

\* the user changes the fields of the edit form
EditForm(form_values) ==
    /\ EditPath(pathname)
    /\ editing # None
    /\ editing.form_values # form_values
    /\ editing' = [editing EXCEPT !.form_values = form_values]
    /\ fired' = NotFired
    /\ UNCHANGED <<api_vars, pathname, token_store, pending, notice, modal, running,
                   listing>>

\* update_inspection of the dashboard: a click on the update button of the
\* edit form
update_inspection_callback(reachable, named) ==
    LET form_values == editing.form_values
        missing == missing_fields(form_values)
        token == bearer(token_store)
        r == put_inspection(token, int_str(editing.row_number), form_values)
    IN
    /\ EditPath(pathname)
    /\ editing # None
    /\ IF token_store = None THEN
            /\ notice' = Text(<<"Session expired or missing data. Please log in again.">>)
            /\ fired' = Fired("update_inspection", FALSE, 0)
            /\ UNCHANGED <<resp, inspections, pathname, pending, editing>>
       ELSE IF missing # << >> THEN
            /\ notice' = missing_list(missing)
            /\ fired' = Fired("update_inspection", FALSE, 0)
            /\ UNCHANGED <<resp, inspections, pathname, pending, editing>>
       ELSE IF ~reachable THEN
            /\ notice' = Text(<<"An error occurred: ", ConnectionError>>)
            /\ fired' = Fired("update_inspection", TRUE, 0)
            /\ UNCHANGED <<resp, inspections, pathname, pending, editing>>
       ELSE
            /\ resp' = Exchange("update", token, int_str(editing.row_number), form_values,
                                r.answer.inside, r.answer.out)
            /\ inspections' = r.inspections
            /\ fired' = Fired("update_inspection", TRUE, r.answer.out.status)
            /\ IF r.answer.out.status = 200
               THEN /\ notice' = Text(<<"Inspection updated successfully!">>)
                    /\ pathname' = DashboardPath
                    /\ pending' = TRUE
                    /\ editing' = None
               ELSE /\ notice' = Text(<<"Error: ", detail_of(r.answer, named)>>)
                    /\ UNCHANGED <<pathname, pending, editing>>
    /\ UNCHANGED <<users, users_id_seq, inspections_id_seq, now, issued, calls, migration>>
    /\ UNCHANGED <<token_store, modal, running, listing>>

\* delete_inspection of the dashboard: a click on the delete button of the
\* edit form
delete_inspection_callback(reachable, named) ==
    LET token == bearer(token_store)
        r == delete_request(token, int_str(editing.row_number))
    IN
    /\ EditPath(pathname)
    /\ editing # None
    /\ IF token_store = None THEN
            /\ notice' = Text(<<"Session expired or missing data. Please log in again.">>)
            /\ fired' = Fired("delete_inspection", FALSE, 0)
            /\ UNCHANGED <<resp, inspections, pathname, pending, editing>>
       ELSE IF ~reachable THEN
            /\ notice' = Text(<<"An error occurred: ", ConnectionError>>)
            /\ fired' = Fired("delete_inspection", TRUE, 0)
            /\ UNCHANGED <<resp, inspections, pathname, pending, editing>>
       ELSE
            /\ resp' = Exchange("delete", token, int_str(editing.row_number), EmptyBody,
                                r.answer.inside, r.answer.out)
            /\ inspections' = r.inspections
            /\ fired' = Fired("delete_inspection", TRUE, r.answer.out.status)
            /\ IF r.answer.out.status = 200
               THEN /\ notice' = Text(<<"Inspection deleted successfully!">>)
                    /\ pathname' = DashboardPath
                    /\ pending' = TRUE
                    /\ editing' = None
               ELSE /\ notice' = Text(<<"Error: ", detail_of(r.answer, named)>>)
                    /\ UNCHANGED <<pathname, pending, editing>>
    /\ UNCHANGED <<users, users_id_seq, inspections_id_seq, now, issued, calls, migration>>
    /\ UNCHANGED <<token_store, modal, running, listing>>

\* the dashboard is opened at a page of the forms
InitForm ==
    /\ users = {[id |-> 1, username |-> "admin",
                 password_hash |-> pwd_context_hash("admin", "salt-a")]}
    /\ users_id_seq = 1
    /\ inspections = {}
    /\ inspections_id_seq = 0
    /\ now = 0
    /\ issued = {}
    /\ resp = NoExchange
    /\ calls = [c \in Callers |-> Idle]
    /\ migration = NotMigrating
    /\ pathname \in FormPaths
    /\ token_store = None
    /\ pending \in BOOLEAN
    /\ notice = <<>>
    /\ InitForms

\* the forms of the dashboard in use
NextForms ==
    \/ \E path \in FormPaths : NavigateForms(path)
    \/ \E p \in {"admin", "letmein"}, named \in BOOLEAN :
            login_user("admin", p, TRUE, named)
    \/ logout
    \/ RouteProtection
    \/ TokenCleared
    \/ \E u \in {"", "admin"}, reachable \in BOOLEAN, named \in BOOLEAN :
            register_user(u, "admin", "salt-a", reachable, named)
    \/ \E reachable \in BOOLEAN : get_inspection_data(reachable)
    \/ \E form_values \in FormValues : SubmitClick(form_values)
    \/ show_modal_on_submit
    \/ submit_inspection
    \/ \E reachable \in BOOLEAN, named \in BOOLEAN : SubmitResolves(reachable, named)
    \/ \E reachable \in BOOLEAN : load_edit_form(reachable)
    \/ \E form_values \in FormValues : EditForm(form_values)
    \/ \E reachable \in BOOLEAN, named \in BOOLEAN :
            update_inspection_callback(reachable, named)
    \/ \E reachable \in BOOLEAN, named \in BOOLEAN :
            delete_inspection_callback(reachable, named)

SpecForms == InitForm /\ [][NextForms]_vars


\* submit_inspection completes in the step
SubmitCompletes == running.submit \in {"due", "sent"} /\ running'.submit = "none"

\* the create call of the click is unresolved
CallUnresolved == running.submit = "sent"

\* the completion of show_modal_on_submit opens the modal and the completion
\* of submit_inspection closes it; no other step changes is_open
ModalFollowsLastCompletion ==
    [][ /\ (running.show /\ ~running'.show) => modal'
        /\ SubmitCompletes => ~modal'
        /\ (~(running.show /\ ~running'.show) /\ ~SubmitCompletes) => modal' = modal ]_vars

\* C21: after a click on Submit the submission modal is open while the
\* create call is unresolved, and it is closed when the call has resolved and
\* submit_inspection has shown its success message or error text
C21_ModalWhileUnresolved ==
    /\ CallUnresolved => modal
    /\ (running.submit = "none" /\ fired.callback = "submit_inspection") => ~modal

\* C30: when both callbacks of a click on Submit have completed, in whichever
\* order, the submission modal is closed
C30_ModalClosedAfterBoth == running = NotRunning => ~modal


\* submit_inspection runs in the step, from the click to requests.post or to
\* its early return
SubmitRuns == running.submit = "due" /\ running'.submit # "due"

\* the step sends nothing to the API and leaves the tables as they are
NoRequest ==
    /\ ~fired'.sent
    /\ resp' = resp
    /\ inspections' = inspections
    /\ inspections_id_seq' = inspections_id_seq

\* a required field of the form is empty
RequiredMissing(form_values) == \E i \in DOMAIN required_fields :
                                    falsy(form_values[required_fields[i]])

\* the missing required fields of the form, as the list shows them
MissingShown(form_values) ==
    LET missing == {required_fields[i] : i \in {j \in DOMAIN required_fields :
                                                  falsy(form_values[required_fields[j]])}}
    IN /\ notice'[1] = "Please fill in the following required fields:"
       /\ Len(notice') = 1 + Cardinality(missing)
       /\ {notice'[i] : i \in 2 .. Len(notice')} = {title(field) : field \in missing}

\* C24 as stated: a submit of the add form or of the edit form with a
\* required field empty sends no request, changes no row, and shows the list
\* of exactly the missing required fields
C24_MissingRequiredListed ==
    [][ /\ (SubmitRuns /\ RequiredMissing(running.form_values)) =>
              /\ running'.submit = "none"
              /\ NoRequest
              /\ MissingShown(running.form_values)
        /\ (Runs("update_inspection") /\ RequiredMissing(editing.form_values)) =>
              /\ NoRequest
              /\ MissingShown(editing.form_values) ]_vars

\* C24, amended: with a token in the token store, a submit of the add form
\* or of the edit form with a required field empty sends no request, changes
\* no row, and shows the list of exactly the missing required fields; with
\* the token store empty it sends no request either and shows the text of
\* the expired session
C24_MissingRequiredListedWithToken ==
    [][ /\ (SubmitRuns /\ RequiredMissing(running.form_values)) =>
              /\ running'.submit = "none"
              /\ NoRequest
              /\ IF running.token_data # None
                 THEN MissingShown(running.form_values)
                 ELSE notice' = <<"Session expired. Please log in again.">>
        /\ (Runs("update_inspection") /\ RequiredMissing(editing.form_values)) =>
              /\ NoRequest
              /\ IF token_store # None
                 THEN MissingShown(editing.form_values)
                 ELSE notice' = <<"Session expired or missing data. Please log in again.">>
      ]_vars

\* C24 witness: the edit form of a row was submitted by a logged-in user with
\* function_location_id and vcp_status empty, and the list names the two
C24_Witness ==
    /\ fired = Fired("update_inspection", FALSE, 0)
    /\ token_store # None
    /\ editing # None
    /\ inspections # {}
    /\ notice = <<"Please fill in the following required fields:",
                  "Function Location Id", "Vcp Status">>

\* C29: a callback that runs with an empty token store sends no request:
\* fetching the inspection list, loading the edit form, update and delete,
\* and the submit of the add form, which has the token store of its click
C29_NoTokenNoRequest ==
    [][ /\ (token_store = None
              /\ \E callback \in {"get_inspection_data", "load_edit_form",
                                  "update_inspection", "delete_inspection"} :
                      Runs(callback)) => NoRequest
        /\ (SubmitRuns /\ running.token_data = None) =>
              /\ NoRequest
              /\ running'.submit = "none"
        /\ (running.submit = "sent" /\ running'.submit = "none") =>
              running.token_data # None ]_vars

\* C29 witness: the token store was emptied while the edit form of a row was
\* open, and a click on Delete was answered without a request
C29_Witness ==
    /\ fired = Fired("delete_inspection", FALSE, 0)
    /\ token_store = None
    /\ editing # None
    /\ inspections # {}
    /\ notice = <<"Session expired or missing data. Please log in again.">>


\* the callbacks that call the API
CallingCallbacks ==
    { "login_user", "register_user", "get_inspection_data", "submit_inspection",
      "load_edit_form", "update_inspection", "delete_inspection" }

\* what a callback shows when its call was answered 200
OrdinaryResults(callback) ==
    CASE callback = "login_user" -> { << >> }
      [] callback = "register_user" -> { <<"Registration successful! You can now login.">> }
      [] callback = "get_inspection_data" ->
            { load_inspections_table([inspections |-> {}]), <<"inspections-table">> }
      [] callback = "submit_inspection" ->
            { <<"Inspection submitted successfully!", "View All Inspections">> }
      [] callback = "load_edit_form" ->
            { <<"edit-inspection-form">> }
                \cup { <<"Inspection #", str_int(n), " not found">> : n \in 1 .. 4 }
      [] callback = "update_inspection" -> { <<"Inspection updated successfully!">> }
      [] callback = "delete_inspection" -> { <<"Inspection deleted successfully!">> }

\* the call of the callback of this step failed: no answer, or another than 200
CallFailed(callback) == Runs(callback) /\ fired'.sent /\ fired'.status # 200

\* a text is displayed, and it is none of the ordinary results of the callback
ErrorDisplayed(callback) == notice' # << >> /\ notice' \notin OrdinaryResults(callback)

\* a failed call of submit, load of the edit form, update or delete, and a
\* login or register that got no answer, displays an error text; a callback
\* makes one call at most
FailedCallsShown ==
    [][ /\ \A callback \in {"submit_inspection", "load_edit_form", "update_inspection",
                            "delete_inspection"} :
              CallFailed(callback) => ErrorDisplayed(callback)
        /\ \A callback \in {"login_user", "register_user"} :
              (CallFailed(callback) /\ fired'.status = 0) => ErrorDisplayed(callback)
        /\ \A callback \in CallingCallbacks :
              (Runs(callback) /\ ~fired'.sent) => resp' = resp ]_vars

\* C22: every failed call of login, register, the fetch of the inspection
\* list, submit, the load of the edit form, update and delete displays an
\* error message, and none shows what it shows for an ordinary result
C22_FailuresDisplayed ==
    [][ \A callback \in CallingCallbacks :
            CallFailed(callback) => ErrorDisplayed(callback) ]_vars

\* the failed fetch of the inspection list alone
ListFailureDisplayed ==
    [][ CallFailed("get_inspection_data") => ErrorDisplayed("get_inspection_data") ]_vars

=============================================================================
